---------------------------- MODULE Spec2Model ----------------------------
(***************************************************************************)
(* Figma-to-Code enterprise generation pipeline: orchestrator phases,      *)
(* configuration validation, framework strategy selection, component name  *)
(* sanitization, component deduplication and reusability extraction.       *)
(*                                                                         *)
(* Text is modelled as sequences of one-character strings, so that         *)
(* hashing, substring tests and regular-expression replacements are        *)
(* computed the way the TypeScript code computes them.                     *)
(***************************************************************************)
EXTENDS Integers, Sequences, FiniteSets, TLC

VARIABLES
  \* --- component generation (framework strategies) ---
  genFramework,   \* config.framework handed to the factory / generator
  genInput,       \* the raw component name handed to generateComponent
  genOut,         \* what the last generateComponent call produced
  \* --- ConfigurationManager ---
  cfg,            \* ConfigurationManager.config
  cfgValidation,  \* last value returned by validateConfig
  \* --- GenerationOrchestrator ---
  figmaData,      \* the FigmaApiResponse passed to generateEnterprise
  orchFramework,  \* config.framework of the orchestrator instance
  faultAt,        \* phase in which the runtime raises a RangeError, or "none"
  pc,             \* position of generateEnterprise
  phaseIdx,       \* index of the phase being executed
  phaseStart,     \* executePhase's local startTime
  now,            \* Date.now()
  console,        \* console.log / console.error lines of executePhase
  metricsPhases,  \* MetricsCollector.phases
  pipeline,       \* closure variables of createPipeline
  phaseResults,   \* locals of generateEnterprise (analysis .. result)
  thrown,         \* error in flight between executePhase and the catch
  handlerErrors,  \* ErrorHandler.errors
  outcome,        \* what generateEnterprise resolved to
  callLog,        \* the collaborator calls of the phases that have completed
  \* --- OptimizationEngine / PerformanceOptimizer ---
  optConfig,      \* OptimizationConfig toggles
  optInput,       \* the batch passed to optimizeComponents
  optOutput,      \* the batch returned
  optBy,          \* which optimizer produced optOutput
  duplicateComponents, \* PerformanceOptimizer.metrics.duplicateComponents
  optAgain,       \* what the asset pass returned for the batch it had rewritten
  \* --- ComponentLibraryManager ---
  libInput,       \* the batch passed to optimizeForReusability
  libOutput,      \* the batch returned
  libDone,
  \* --- ReactGenerator on a Figma document ---
  rxConfig,       \* the generator's config (typescript, theme, i18n)
  rxDocument,     \* figmaData.document
  rxComponents,   \* figmaData.components: entries key, name
  rxClock,        \* Date.now()
  rxRuns,         \* per run of generateComponents: the components returned
  rxLibrary,      \* optimizeForReusability applied to the first run's output
  \* --- PerformanceOptimizer bundle size and the performance reports ---
  perfConfig,     \* config.optimization: maxBundleSize (KB), enableLazyLoading
  perfMetrics,    \* PerformanceOptimizer.metrics
  perfInput,      \* the batch passed to optimizeBundleSize
  perfOptimized,  \* the batch returned
  perfReports,    \* the PerformanceReport of each pipeline for that batch
  \* --- quality analysis ---
  qaConfig,       \* config.enableTesting
  qaInput,        \* the components passed to analyzeQuality
  qaReports,      \* the QualityReport of each pipeline for these components
  \* --- two generateEnterprise runs of one GenerationOrchestrator ---
  runs,           \* per run: its argument, position, executePhase local and closure
  runsNow,        \* Date.now()
  runsMetrics,    \* this.metrics.phases of the orchestrator
  runsErrors,     \* this.errorHandler.errors of the orchestrator
  \* --- ComponentAnalyzer ---
  anDocument,     \* figmaData.document passed to analyzeDesignSystem
  anResult,       \* the AnalysisResult returned
  \* --- tree shaking ---
  shakeConfig,    \* config.enableTreeShaking
  shakeInput,     \* the batch passed to the optimizer
  shakeOutput,    \* the batch returned
  shakeBy,        \* which optimizer produced shakeOutput
  \* --- stylesheet generation ---
  cssConfig,      \* cssArchitecture, enableThemeSupport, and the container query flag
  cssName,        \* componentName
  cssOut,         \* the stylesheet text returned, and by which generator
  \* --- a MetricsCollector of its own ---
  mcPhases,       \* MetricsCollector.phases
  mcStartTime,    \* MetricsCollector.startTime
  mcNow,          \* Date.now()
  mcReport,       \* outcome of the last generateReport() call
  \* --- documentation of an optimized batch ---
  docConfig,      \* the EnterpriseGenerationConfig of the run
  docInput,       \* the components the generator returned
  docOptimized,   \* what optimizeComponents returned for them
  docOutput,      \* componentDocs of the documentation output
  \* --- a ConfigurationManager and a caller holding what getConfig returned ---
  snapHeap,       \* the optimization objects, by address
  snapConfig,     \* this.config; its optimization field is an address
  snapCopy,       \* the object getConfig() returned to the caller
  snapStep        \* the operation done last

genVars  == <<genFramework, genInput, genOut>>
cfgVars  == <<cfg, cfgValidation>>
orchVars == <<figmaData, orchFramework, faultAt, pc, phaseIdx, phaseStart, now,
              console, metricsPhases, pipeline, phaseResults, thrown,
              handlerErrors, outcome, callLog>>
optVars  == <<optConfig, optInput, optOutput, optBy, duplicateComponents, optAgain>>
libVars  == <<libInput, libOutput, libDone>>
rxVars   == <<rxConfig, rxDocument, rxComponents, rxClock, rxRuns, rxLibrary>>
perfVars == <<perfConfig, perfMetrics, perfInput, perfOptimized, perfReports>>
qaVars   == <<qaConfig, qaInput, qaReports>>
runsVars == <<runs, runsNow, runsMetrics, runsErrors>>
anVars   == <<anDocument, anResult>>
shakeVars == <<shakeConfig, shakeInput, shakeOutput, shakeBy>>
cssVars  == <<cssConfig, cssName, cssOut>>
mcVars   == <<mcPhases, mcStartTime, mcNow, mcReport>>
docVars  == <<docConfig, docInput, docOptimized, docOutput>>
snapVars == <<snapHeap, snapConfig, snapCopy, snapStep>>
vars     == <<genVars, cfgVars, orchVars, optVars, libVars, rxVars, perfVars,
              qaVars, runsVars, anVars, shakeVars, cssVars, mcVars,
              docVars, snapVars>>

----------------------------------------------------------------------------
(* Bounds *)

MaxNameLen == 3      \* longest raw component name
MaxClock   == 3      \* largest value of Date.now()
MaxBatch   == 3      \* largest batch handed to the optimizers
MaxLibBatch == 6     \* largest batch handed to optimizeForReusability
MaxDocNodes == 3     \* most children of the document node
MaxRxClock == 2      \* largest value of Date.now() between two generator runs
MaxPerfBatch == 3    \* largest batch handed to optimizeBundleSize
MaxQaCount == 34     \* most components of one kind handed to analyzeQuality
MaxRunsClock == 1    \* largest value of Date.now() while two runs are interleaved
MaxNesting == 10     \* deepest nesting of containers in an analyzed document
MaxMcPhases == 2      \* phases recorded in one MetricsCollector
MaxMcClock == 1       \* ticks of Date.now() seen by that collector
MaxDocsBatch == 3     \* components generated for one documentation run
MaxSnapObjects == 2   \* optimization objects one ConfigurationManager allocates
MaxShakeBatch == 2   \* largest batch handed to treeShakeUnusedCode

----------------------------------------------------------------------------
(* Strings: sequences of characters, with JavaScript's character codes *)

Ascii ==
  <<" ", "!", "\"", "#", "$", "%", "&", "'", "(", ")", "*", "+", ",", "-",
    ".", "/", "0", "1", "2", "3", "4", "5", "6", "7", "8", "9", ":", ";",
    "<", "=", ">", "?", "@", "A", "B", "C", "D", "E", "F", "G", "H", "I",
    "J", "K", "L", "M", "N", "O", "P", "Q", "R", "S", "T", "U", "V", "W",
    "X", "Y", "Z", "[", "\\", "]", "^", "_", "<backtick>", "a", "b", "c", "d", "e",
    "f", "g", "h", "i", "j", "k", "l", "m", "n", "o", "p", "q", "r", "s",
    "t", "u", "v", "w", "x", "y", "z", "{", "|", "}", "~">>

\* String.prototype.charCodeAt for one character
charCodeAt(c) ==
  IF c = "\n" THEN 10
  ELSE 31 + (CHOOSE i \in 1..Len(Ascii) : Ascii[i] = c)

fromCharCode(n) == IF n = 10 THEN "\n" ELSE Ascii[n - 31]

IsDigit(c) == charCodeAt(c) \in 48..57
IsUpper(c) == charCodeAt(c) \in 65..90
IsLower(c) == charCodeAt(c) \in 97..122
IsAlnum(c) == IsDigit(c) \/ IsUpper(c) \/ IsLower(c)
\* the characters of the model that the regular expression class \s matches
IsSpace(c) == c \in {" ", "\n"}

\* String.prototype.toUpperCase / toLowerCase on one ASCII character
toUpperCase(c) == IF IsLower(c) THEN fromCharCode(charCodeAt(c) - 32) ELSE c

\* String.prototype.includes
includes(s, t) ==
  \E i \in 0..(Len(s) - Len(t)) : SubSeq(s, i + 1, i + Len(t)) = t

\* all strings over an alphabet up to a length
RECURSIVE StringsUpTo(_, _)
StringsUpTo(alphabet, n) ==
  IF n = 0 THEN {<<>>}
  ELSE LET shorter == StringsUpTo(alphabet, n - 1)
       IN  shorter \cup {Append(s, c) : s \in shorter, c \in alphabet}

----------------------------------------------------------------------------
(* Framework names and other literals *)

ReactS     == <<"r","e","a","c","t">>
VueS       == <<"v","u","e">>
AngularS   == <<"a","n","g","u","l","a","r">>
SvelteS    == <<"s","v","e","l","t","e">>
SveltekitS == <<"s","v","e","l","t","e","k","i","t">>
PrefetchS  == <<"p","r","e","f","e","t","c","h">>

\* values config.framework takes at run time: the four of the enum and two
\* strings outside it
FrameworkValues == {ReactS, VueS, AngularS, SvelteS, SveltekitS, PrefetchS}

ComponentS == <<"C","o","m","p","o","n","e","n","t">>


----------------------------------------------------------------------------
(* Component name sanitization: one private method per strategy *)

\* name.replace(/[^a-zA-Z0-9]/g, '')
StripNonAlnum(name) == SelectSeq(name, IsAlnum)

\* .replace(/^[0-9]/, 'Component$&')
PrefixLeadingDigit(s) ==
  IF s # <<>> /\ IsDigit(s[1]) THEN ComponentS \o s ELSE s

\* .replace(/^./, str => str.toUpperCase())
UpperFirst(s) ==
  IF s # <<>> /\ s[1] # "\n" THEN <<toUpperCase(s[1])>> \o Tail(s) ELSE s

\* ... || 'Component'
OrComponent(s) == IF s = <<>> THEN ComponentS ELSE s

\* a sanitizer that forgets to upper-case the first character
ReactGenerator_sanitizeComponentName_NoUpper(name) ==
  OrComponent(PrefixLeadingDigit(StripNonAlnum(name)))

ReactGenerator_sanitizeComponentName(name) ==
  OrComponent(UpperFirst(PrefixLeadingDigit(StripNonAlnum(name))))

VueGenerator_sanitizeComponentName(name) ==
  OrComponent(UpperFirst(PrefixLeadingDigit(StripNonAlnum(name))))

AngularGenerator_sanitizeComponentName(name) ==
  OrComponent(UpperFirst(PrefixLeadingDigit(StripNonAlnum(name))))

SvelteGenerator_sanitizeComponentName(name) ==
  OrComponent(UpperFirst(PrefixLeadingDigit(StripNonAlnum(name))))

EnterpriseCodeGenerator_sanitizeComponentName(name) ==
  OrComponent(UpperFirst(PrefixLeadingDigit(StripNonAlnum(name))))

----------------------------------------------------------------------------
(* Framework strategy selection and component emission                     *)
(* The emitted text is represented by the strategy that rendered it        *)
(* (syntax) and the component name it was rendered for.                    *)

UnsupportedFrameworkS ==
  <<"U","n","s","u","p","p","o","r","t","e","d"," ",
    "f","r","a","m","e","w","o","r","k",":"," ">>

\* new Error(message)
NewError(message) == [name |-> "Error", message |-> message]

NoError == [name |-> "none", message |-> <<>>]
NoComponent == [name |-> <<>>, syntax |-> <<>>]

ReactGenerator_generateComponent(name) ==
  [name |-> ReactGenerator_sanitizeComponentName(name), syntax |-> ReactS]

VueGenerator_generateComponent(name) ==
  [name |-> VueGenerator_sanitizeComponentName(name), syntax |-> VueS]

AngularGenerator_generateComponent(name) ==
  [name |-> AngularGenerator_sanitizeComponentName(name), syntax |-> AngularS]

SvelteGenerator_generateComponent(name) ==
  [name |-> SvelteGenerator_sanitizeComponentName(name), syntax |-> SvelteS]

\* FrameworkGeneratorFactory.createGenerator: the switch on config.framework
createGenerator(framework) ==
  CASE framework = ReactS   -> [threw |-> FALSE, generator |-> ReactS, error |-> NoError]
    [] framework = VueS     -> [threw |-> FALSE, generator |-> VueS, error |-> NoError]
    [] framework = AngularS -> [threw |-> FALSE, generator |-> AngularS, error |-> NoError]
    [] framework = SvelteS  -> [threw |-> FALSE, generator |-> SvelteS, error |-> NoError]
    [] OTHER -> [threw |-> TRUE, generator |-> <<>>,
                 error |-> NewError(UnsupportedFrameworkS \o framework)]

\* IFrameworkGenerator.generateComponent, dispatched on the generator's class
generateComponent(generator, name) ==
  CASE generator = ReactS   -> ReactGenerator_generateComponent(name)
    [] generator = VueS     -> VueGenerator_generateComponent(name)
    [] generator = AngularS -> AngularGenerator_generateComponent(name)
    [] generator = SvelteS  -> SvelteGenerator_generateComponent(name)

\* EnterpriseCodeGenerator.generateEnterpriseJSX: the if-chain on
\* config.framework, ending in generateReactComponent
generateEnterpriseJSX(framework, componentName) ==
  IF framework = ReactS THEN [name |-> componentName, syntax |-> ReactS]
  ELSE IF framework = VueS THEN [name |-> componentName, syntax |-> VueS]
  ELSE IF framework = AngularS THEN [name |-> componentName, syntax |-> AngularS]
  ELSE [name |-> componentName, syntax |-> ReactS]

\* EnterpriseCodeGenerator.generateEnterpriseComponent
generateEnterpriseComponent(framework, componentName) ==
  generateEnterpriseJSX(framework,
                        EnterpriseCodeGenerator_sanitizeComponentName(componentName))

\* characters raw component names are drawn from
NameChars == {"a", "z", "Q", "7", "-", " "}
RawNames  == StringsUpTo(NameChars, MaxNameLen)

GenIdle == [by |-> "none", threw |-> FALSE, error |-> NoError, component |-> NoComponent]

GenInit ==
  /\ genFramework \in FrameworkValues
  /\ genInput \in RawNames
  /\ genOut = GenIdle

\* createGenerator() followed by generator.generateComponent(node, name)
FactoryGenerate ==
  /\ genOut.by = "none"
  /\ LET made == createGenerator(genFramework)
     IN  genOut' = IF made.threw
                   THEN [by |-> "factory", threw |-> TRUE, error |-> made.error,
                         component |-> NoComponent]
                   ELSE [by |-> "factory", threw |-> FALSE, error |-> NoError,
                         component |-> generateComponent(made.generator, genInput)]
  /\ UNCHANGED <<genFramework, genInput>>

\* EnterpriseCodeGenerator.generateEnterpriseComponent(node, name)
EnterpriseGenerate ==
  /\ genOut.by = "none"
  /\ genOut' = [by |-> "enterprise", threw |-> FALSE, error |-> NoError,
                component |-> generateEnterpriseComponent(genFramework, genInput)]
  /\ UNCHANGED <<genFramework, genInput>>

\* the generated name is handed to generateComponent again
Regenerate ==
  /\ genOut.by # "none"
  /\ ~genOut.threw
  /\ genInput # genOut.component.name
  /\ genInput' = genOut.component.name
  /\ genOut' = GenIdle
  /\ UNCHANGED genFramework


----------------------------------------------------------------------------
(* ConfigurationManager *)

ValidFrameworks == {ReactS, VueS, AngularS, SvelteS}
ValidStyling ==
  {"tailwind", "css-modules", "styled-components", "emotion", "vanilla-extract"}

\* values the caller's partial configuration is drawn from
CfgFrameworks == {ReactS, SvelteS, SveltekitS}
CfgStylings   == {"tailwind", "emotion", "sass"}
CfgBundleSizes == {-1, 0, 1, 300}
CfgScores      == {-1, 0, 100, 101}

\* ConfigurationManager.createDefaultConfig (the validated fields)
createDefaultConfig ==
  [framework |-> ReactS,
   styling |-> "tailwind",
   optimization |-> [maxBundleSize |-> 500, targetPerformanceScore |-> 90]]

\* object spread: { ...a, ...b }
Spread(a, b) ==
  [k \in (DOMAIN a) \cup (DOMAIN b) |-> IF k \in DOMAIN b THEN b[k] ELSE a[k]]

Restrict(f, ks) == [k \in ks |-> f[k]]

\* ConfigurationManager.mergeConfigurations
mergeConfigurations(base, override) ==
  [Spread(base, override) EXCEPT
     !.optimization =
        Spread(base.optimization,
               IF "optimization" \in DOMAIN override
               THEN override.optimization ELSE <<>>)]

\* Partial<OptimizationConfig> and Partial<EnterpriseGenerationConfig>
PartialOptimizations ==
  {Restrict(o, ks) :
     o \in [maxBundleSize : CfgBundleSizes, targetPerformanceScore : CfgScores],
     ks \in SUBSET {"maxBundleSize", "targetPerformanceScore"}}

PartialConfigs ==
  {Restrict(c, ks) :
     c \in [framework : CfgFrameworks, styling : CfgStylings,
            optimization : PartialOptimizations],
     ks \in SUBSET {"framework", "styling", "optimization"}}

NoArg == <<>>

\* a validateConfig that clamps the numeric options instead of only reporting
validateConfig_Coerce(config) ==
  LET mbs == config.optimization.maxBundleSize
      tps == config.optimization.targetPerformanceScore
      e1 == IF config.framework \notin ValidFrameworks
            THEN <<[text |-> "Invalid framework: ", arg |-> config.framework]>>
            ELSE <<>>
      e2 == IF config.styling \notin ValidStyling
            THEN <<[text |-> "Invalid styling: ", arg |-> config.styling]>>
            ELSE <<>>
      e3 == IF mbs <= 0
            THEN <<[text |-> "Max bundle size must be greater than 0", arg |-> NoArg]>>
            ELSE <<>>
      e4 == IF tps < 0 \/ tps > 100
            THEN <<[text |-> "Target performance score must be between 0 and 100",
                    arg |-> NoArg]>>
            ELSE <<>>
      errors == e1 \o e2 \o e3 \o e4
  IN  [isValid |-> Len(errors) = 0,
       errors |-> errors,
       config |-> [config EXCEPT
                     !.optimization.maxBundleSize = IF mbs <= 0 THEN 1 ELSE mbs,
                     !.optimization.targetPerformanceScore =
                        IF tps < 0 THEN 0 ELSE IF tps > 100 THEN 100 ELSE tps]]

\* ConfigurationManager.validateConfig: the value returned (isValid, errors)
\* and this.config as the call leaves it
validateConfig(config) ==
  LET e1 == IF config.framework \notin ValidFrameworks
            THEN <<[text |-> "Invalid framework: ", arg |-> config.framework]>>
            ELSE <<>>
      e2 == IF config.styling \notin ValidStyling
            THEN <<[text |-> "Invalid styling: ", arg |-> config.styling]>>
            ELSE <<>>
      e3 == IF config.optimization.maxBundleSize <= 0
            THEN <<[text |-> "Max bundle size must be greater than 0", arg |-> NoArg]>>
            ELSE <<>>
      e4 == IF config.optimization.targetPerformanceScore < 0
               \/ config.optimization.targetPerformanceScore > 100
            THEN <<[text |-> "Target performance score must be between 0 and 100",
                    arg |-> NoArg]>>
            ELSE <<>>
      errors == e1 \o e2 \o e3 \o e4
  IN  [isValid |-> Len(errors) = 0, errors |-> errors, config |-> config]

NotValidated == [done |-> FALSE, isValid |-> FALSE, errors |-> <<>>]

\* new ConfigurationManager(): the config parameter defaults to {}
CfgInit ==
  /\ cfg = mergeConfigurations(createDefaultConfig, <<>>)
  /\ cfgValidation = NotValidated

\* ConfigurationManager.updateConfig(updates); the value an earlier
\* validateConfig() returned says nothing about the updated configuration
UpdateConfig ==
  /\ \E updates \in PartialConfigs : cfg' = mergeConfigurations(cfg, updates)
  /\ cfgValidation' = NotValidated

\* ConfigurationManager.validateConfig()
ValidateConfig ==
  /\ ~cfgValidation.done
  /\ LET r == validateConfig(cfg)
     IN  /\ cfgValidation' = [done |-> TRUE, isValid |-> r.isValid, errors |-> r.errors]
         /\ cfg' = r.config


----------------------------------------------------------------------------
(* ErrorHandler *)

FetchS == <<"f","e","t","c","h">>
FigmaS == <<"F","i","g","m","a">>

\* message of the TypeError raised by reading a property of undefined
UndefinedTypeS ==
  <<"C","a","n","n","o","t"," ","r","e","a","d"," ","p","r","o","p","e","r",
    "t","i","e","s"," ","o","f"," ","u","n","d","e","f","i","n","e","d"," ",
    "(","r","e","a","d","i","n","g"," ","'","t","y","p","e","'",")">>

\* message of the RangeError the runtime raises when a string or the call
\* stack outgrows its limit
RangeErrorS == <<"I","n","v","a","l","i","d"," ","s","t","r","i","n","g"," ","l","e","n",
    "g","t","h">>

NetworkFailedS == <<"N","e","t","w","o","r","k"," ","r","e","q","u","e","s","t"," ","f","a",
    "i","l","e","d">>
UnknownErrorS  == <<"U","n","k","n","o","w","n"," ","e","r","r","o","r"," ","o","c","c","u",
    "r","r","e","d">>

SuggestTypeS ==
  <<"C","h","e","c","k"," ","t","y","p","e"," ","d","e","f","i","n","i","t",
    "i","o","n","s"," ","a","n","d"," ","e","n","s","u","r","e"," ","p","r",
    "o","p","e","r"," ","d","a","t","a"," ","f","l","o","w">>
SuggestNetworkS ==
  <<"C","h","e","c","k"," ","i","n","t","e","r","n","e","t"," ","c","o","n",
    "n","e","c","t","i","o","n"," ","a","n","d"," ","A","P","I"," ","e","n",
    "d","p","o","i","n","t","s">>
SuggestFigmaS ==
  <<"V","e","r","i","f","y"," ","F","i","g","m","a"," ","f","i","l","e"," ",
    "a","c","c","e","s","s"," ","a","n","d"," ","A","P","I"," ","t","o","k",
    "e","n">>
SuggestSyntaxS ==
  <<"C","h","e","c","k"," ","g","e","n","e","r","a","t","e","d"," ","c","o",
    "d","e"," ","s","y","n","t","a","x"," ","a","n","d"," ","t","e","m","p",
    "l","a","t","e","s">>
SuggestGenericS ==
  <<"R","e","v","i","e","w"," ","e","r","r","o","r"," ","d","e","t","a","i",
    "l","s"," ","a","n","d"," ","t","r","y"," ","a","g","a","i","n">>

ReadmeHeadS == <<"#"," ","G","e","n","e","r","a","t","i","o","n"," ","F","a","i","l","e",
    "d","\n","\n","E","r","r","o","r",":"," ">>
ReadmeSuggestionS == <<"\n","\n","S","u","g","g","e","s","t","i","o","n",":"," ">>

\* a processError that keeps no message of the error it handles
processError_DropMessage(error, time) ==
  [message |-> UnknownErrorS, code |-> "UNKNOWN_ERROR", severity |-> "medium",
   context |-> [timestamp |-> time], suggestion |-> SuggestGenericS,
   recoverable |-> TRUE]

\* ErrorHandler.processError: categorises the error by name and message
processError(error, time) ==
  IF error.name = "TypeError" THEN
    [message |-> error.message, code |-> "TYPE_ERROR", severity |-> "medium",
     context |-> [timestamp |-> time], suggestion |-> SuggestTypeS,
     recoverable |-> TRUE]
  ELSE IF error.name = "NetworkError" \/ includes(error.message, FetchS) THEN
    [message |-> NetworkFailedS, code |-> "NETWORK_ERROR", severity |-> "high",
     context |-> [timestamp |-> time], suggestion |-> SuggestNetworkS,
     recoverable |-> TRUE]
  ELSE IF includes(error.message, FigmaS) THEN
    [message |-> error.message, code |-> "FIGMA_API_ERROR", severity |-> "high",
     context |-> [timestamp |-> time], suggestion |-> SuggestFigmaS,
     recoverable |-> TRUE]
  ELSE IF error.name = "SyntaxError" THEN
    [message |-> error.message, code |-> "SYNTAX_ERROR", severity |-> "critical",
     context |-> [timestamp |-> time], suggestion |-> SuggestSyntaxS,
     recoverable |-> FALSE]
  ELSE
    [message |-> IF error.message # <<>> THEN error.message ELSE UnknownErrorS,
     code |-> "UNKNOWN_ERROR", severity |-> "medium",
     context |-> [timestamp |-> time], suggestion |-> SuggestGenericS,
     recoverable |-> TRUE]

\* ErrorHandler.createFallbackResult
createFallbackResult(error, time) ==
  [components |-> <<>>,
   designSystem |-> [tokens |-> <<"{","}">>, themes |-> [light |-> <<>>, dark |-> <<>>],
                     utilities |-> <<>>, components |-> <<>>],
   documentation |-> [readme |-> ReadmeHeadS \o error.message
                                  \o ReadmeSuggestionS \o error.suggestion,
                      componentDocs |-> <<>>,
                      designGuidelines |-> <<>>,
                      usageExamples |-> <<>>],
   tests |-> [unitTests |-> <<>>, integrationTests |-> <<>>, e2eTests |-> <<>>,
              accessibilityTests |-> <<>>],
   performance |-> [bundleSize |-> 0, renderTime |-> 0, memoryUsage |-> 0,
                    optimizationSavings |-> 0,
                    recommendations |->
                      <<[text |-> "Failed with error: ", arg |-> error.code]>>,
                    generationTime |-> time],
   quality |-> [overallScore |-> 0, visualAccuracy |-> 0, codeQuality |-> 0,
                accessibility |-> 0, performance |-> 0,
                recommendations |-> <<error.suggestion>>]]

----------------------------------------------------------------------------
(* MetricsCollector *)

\* MetricsCollector.recordPhase
recordPhase(phases, name, duration, time) ==
  Append(phases, [name |-> name, duration |-> duration,
                  startTime |-> time - duration, endTime |-> time,
                  success |-> TRUE, error |-> NoError, memoryUsage |-> 0])

\* a recordPhaseError that loses the error and marks the phase successful
recordPhaseError_AsSuccess(phases, name, duration, error, time) ==
  Append(phases, [name |-> name, duration |-> duration,
                  startTime |-> time - duration, endTime |-> time,
                  success |-> TRUE, error |-> NoError, memoryUsage |-> 0])

\* MetricsCollector.recordPhaseError
recordPhaseError(phases, name, duration, error, time) ==
  Append(phases, [name |-> name, duration |-> duration,
                  startTime |-> time - duration, endTime |-> time,
                  success |-> FALSE, error |-> error, memoryUsage |-> 0])


----------------------------------------------------------------------------
(* GenerationOrchestrator *)

PhaseOrder ==
  <<"Analysis", "Generation", "Optimization", "Quality Validation",
    "Documentation", "Testing", "Packaging">>

NumPhases == 7

PhaseNames == {PhaseOrder[i] : i \in 1..NumPhases}

\* values computed by the collaborators are kept as terms: the operation that
\* produced them and the values it was applied to
Term(op, args) == [op |-> op, args |-> args]

Undefined == Term("undefined", <<>>)

FigmaTerm(data) == Term(data.file, <<>>)

GeneratorClass(generator) ==
  CASE generator = ReactS   -> "ReactGenerator"
    [] generator = VueS     -> "VueGenerator"
    [] generator = AngularS -> "AngularGenerator"
    [] generator = SvelteS  -> "SvelteGenerator"

Returned(value, closure) ==
  [threw |-> FALSE, error |-> NoError, value |-> value, closure |-> closure]

Threw(error, closure) ==
  [threw |-> TRUE, error |-> error, value |-> Undefined, closure |-> closure]

RuntimeFault(phase, fault) == fault = phase

\* ComponentAnalyzer.analyzeDesignSystem: findComponents(figmaData.document)
\* reads node.type first
analyzeDesignSystem(data, fault) ==
  IF ~data.hasDocument
  THEN [threw |-> TRUE,
        error |-> [name |-> "TypeError", message |-> UndefinedTypeS],
        value |-> Undefined]
  ELSE IF RuntimeFault("Analysis", fault)
  THEN [threw |-> TRUE,
        error |-> [name |-> "RangeError", message |-> RangeErrorS],
        value |-> Undefined]
  ELSE [threw |-> FALSE, error |-> NoError,
        value |-> Term("analyzeDesignSystem", <<FigmaTerm(data)>>)]

\* createPipeline(...).analyze
pipeline_analyze(data, framework, fault, closure) ==
  LET r == analyzeDesignSystem(data, fault)
  IN  IF r.threw THEN Threw(r.error, closure)
      ELSE Returned(r.value, [closure EXCEPT !.analysisResult = r.value])

\* createPipeline(...).generate
pipeline_generate(data, framework, fault, closure) ==
  LET made == createGenerator(framework)
  IN  IF made.threw THEN Threw(made.error, closure)
      ELSE IF RuntimeFault("Generation", fault)
      THEN Threw([name |-> "RangeError", message |-> RangeErrorS], closure)
      ELSE LET components ==
                 Term("generateComponents",
                      <<Term(GeneratorClass(made.generator), <<>>),
                        FigmaTerm(data), closure.analysisResult>>)
           IN  Returned(components, [closure EXCEPT !.components = components])

\* createPipeline(...).optimize
pipeline_optimize(data, framework, fault, closure) ==
  IF RuntimeFault("Optimization", fault)
  THEN Threw([name |-> "RangeError", message |-> RangeErrorS], closure)
  ELSE LET optimized == Term("optimizeComponents", <<closure.components>>)
       IN  Returned(optimized, [closure EXCEPT !.optimizedComponents = optimized])

\* createPipeline(...).validate
pipeline_validate(data, framework, fault, closure) ==
  IF RuntimeFault("Quality Validation", fault)
  THEN Threw([name |-> "RangeError", message |-> RangeErrorS], closure)
  ELSE Returned(Term("analyzeQuality", <<closure.optimizedComponents>>), closure)

\* createPipeline(...).document
pipeline_document(data, framework, fault, closure) ==
  IF RuntimeFault("Documentation", fault)
  THEN Threw([name |-> "RangeError", message |-> RangeErrorS], closure)
  ELSE Returned(Term("generateDocumentation",
                     <<closure.optimizedComponents,
                       Term("designTokens", <<closure.analysisResult>>)>>),
                closure)

\* createPipeline(...).test
pipeline_test(data, framework, fault, closure) ==
  IF RuntimeFault("Testing", fault)
  THEN Threw([name |-> "RangeError", message |-> RangeErrorS], closure)
  ELSE Returned(Term("generateTests", <<closure.optimizedComponents>>), closure)

\* createPipeline(...).package
pipeline_package(data, framework, fault, closure) ==
  IF RuntimeFault("Packaging", fault)
  THEN Threw([name |-> "RangeError", message |-> RangeErrorS], closure)
  ELSE LET tokens == Term("designTokens", <<closure.analysisResult>>)
       IN  Returned(
             [components |-> closure.optimizedComponents,
              designSystem |-> Term("generateDesignSystem", <<tokens>>),
              documentation |-> Term("generateDocumentation",
                                     <<closure.optimizedComponents, tokens>>),
              tests |-> Term("generateTests", <<closure.optimizedComponents>>),
              performance |-> Term("generatePerformanceReport",
                                   <<closure.optimizedComponents>>),
              quality |-> Term("analyzeQuality", <<closure.optimizedComponents>>)],
             closure)

\* the operation generateEnterprise hands to executePhase for each phase
operation(idx, data, framework, fault, closure) ==
  CASE idx = 1 -> pipeline_analyze(data, framework, fault, closure)
    [] idx = 2 -> pipeline_generate(data, framework, fault, closure)
    [] idx = 3 -> pipeline_optimize(data, framework, fault, closure)
    [] idx = 4 -> pipeline_validate(data, framework, fault, closure)
    [] idx = 5 -> pipeline_document(data, framework, fault, closure)
    [] idx = 6 -> pipeline_test(data, framework, fault, closure)
    [] idx = 7 -> pipeline_package(data, framework, fault, closure)

\* a generateEnterprise that goes on to Optimization without Generation
NextPhase_Skip(idx) == IF idx = 1 THEN 3 ELSE idx + 1

\* generateEnterprise: the phase awaited after phase idx
NextPhase(idx) == idx + 1

NoPhaseResults == [i \in 1..NumPhases |-> Undefined]

\* a call of a collaborator made by a pipeline step; together marks the calls
\* started in one Promise.all
Call(idx, op, together) == [phase |-> PhaseOrder[idx], op |-> op, together |-> together]

\* the collaborator calls the pipeline step of phase idx makes when it resolves
CallsOf(idx) ==
  CASE idx = 1 -> <<Call(1, "analyzeDesignSystem", FALSE)>>
    [] idx = 2 -> <<Call(2, "createGenerator", FALSE), Call(2, "generateComponents", FALSE)>>
    [] idx = 3 -> <<Call(3, "optimizeComponents", FALSE)>>
    [] idx = 4 -> <<Call(4, "analyzeQuality", FALSE)>>
    [] idx = 5 -> <<Call(5, "generateDocumentation", FALSE)>>
    [] idx = 6 -> <<Call(6, "generateTests", FALSE)>>
    [] idx = 7 -> <<Call(7, "analyzeQuality", TRUE), Call(7, "generateDocumentation", TRUE),
                    Call(7, "generateTests", TRUE), Call(7, "generateDesignSystem", FALSE),
                    Call(7, "generatePerformanceReport", FALSE)>>
Pending == [kind |-> "pending", failed |-> FALSE, value |-> <<>>]


\* new GenerationOrchestrator(config): no validation of config takes place
OrchInit ==
  /\ figmaData \in [hasDocument : BOOLEAN, file : {"fileA", "fileB"}]
  /\ orchFramework \in FrameworkValues
  /\ faultAt \in PhaseNames \cup {"none"}
  /\ pc = "idle"
  /\ phaseIdx = 0
  /\ phaseStart = 0
  /\ now = 0
  /\ console = <<>>
  /\ metricsPhases = <<>>
  /\ pipeline = [analysisResult |-> Undefined, components |-> Undefined,
                 optimizedComponents |-> Undefined]
  /\ phaseResults = NoPhaseResults
  /\ thrown = NoError
  /\ handlerErrors = <<>>
  /\ outcome = Pending
  /\ callLog = <<>>

\* Date.now() advances
Tick ==
  /\ pc \in {"idle", "start", "run", "catch"}
  /\ now < MaxClock
  /\ now' = now + 1
  /\ UNCHANGED <<figmaData, orchFramework, faultAt, pc, phaseIdx, phaseStart,
                 console, metricsPhases, pipeline, phaseResults, thrown,
                 handlerErrors, outcome>>
  /\ UNCHANGED callLog

\* generateEnterprise(figmaData) up to the first executePhase
GenerateEnterprise ==
  /\ pc = "idle"
  /\ pc' = "start"
  /\ phaseIdx' = 1
  /\ UNCHANGED <<figmaData, orchFramework, faultAt, phaseStart, now, console,
                 metricsPhases, pipeline, phaseResults, thrown, handlerErrors,
                 outcome>>
  /\ UNCHANGED callLog

\* executePhase: startTime = Date.now(), the log line, operation() is called
StartPhase ==
  /\ pc = "start"
  /\ phaseStart' = now
  /\ console' = Append(console, [kind |-> "start", phase |-> PhaseOrder[phaseIdx]])
  /\ pc' = "run"
  /\ UNCHANGED <<figmaData, orchFramework, faultAt, phaseIdx, now, metricsPhases,
                 pipeline, phaseResults, thrown, handlerErrors, outcome>>
  /\ UNCHANGED callLog

\* executePhase: operation() resolved; the phase is recorded and its result
\* returned to generateEnterprise, which goes on to the next phase or returns
PhaseCompletes ==
  /\ pc = "run"
  /\ LET r == operation(phaseIdx, figmaData, orchFramework, faultAt, pipeline)
         name == PhaseOrder[phaseIdx]
     IN  /\ ~r.threw
         /\ console' = Append(console, [kind |-> "completed", phase |-> name])
         /\ metricsPhases' = recordPhase(metricsPhases, name, now - phaseStart, now)
         /\ pipeline' = r.closure
         /\ callLog' = callLog \o CallsOf(phaseIdx)
         /\ phaseResults' = [phaseResults EXCEPT ![phaseIdx] = r.value]
         /\ IF phaseIdx = NumPhases
            THEN /\ outcome' = [kind |-> "resolved", failed |-> FALSE, value |-> r.value]
                 /\ pc' = "done"
                 /\ UNCHANGED phaseIdx
            ELSE /\ phaseIdx' = NextPhase(phaseIdx)
                 /\ pc' = "start"
                 /\ UNCHANGED outcome
  /\ UNCHANGED <<figmaData, orchFramework, faultAt, phaseStart, now, thrown,
                 handlerErrors>>

\* executePhase: operation() threw; the failure is recorded and rethrown
PhaseThrows ==
  /\ pc = "run"
  /\ LET r == operation(phaseIdx, figmaData, orchFramework, faultAt, pipeline)
         name == PhaseOrder[phaseIdx]
     IN  /\ r.threw
         /\ console' = Append(console, [kind |-> "failed", phase |-> name])
         /\ metricsPhases' =
              recordPhaseError(metricsPhases, name, now - phaseStart, r.error, now)
         /\ thrown' = r.error
  /\ pc' = "catch"
  /\ UNCHANGED <<figmaData, orchFramework, faultAt, phaseIdx, phaseStart, now,
                 pipeline, phaseResults, handlerErrors, outcome>>
  /\ UNCHANGED callLog

\* generateEnterprise: catch (error) { return handleGenerationError(error) }
HandleGenerationError ==
  /\ pc = "catch"
  /\ LET handledError == processError(thrown, now)
     IN  /\ handlerErrors' = Append(handlerErrors, handledError)
         /\ outcome' = [kind |-> "resolved", failed |-> TRUE,
                        value |-> createFallbackResult(handledError, now)]
  /\ pc' = "done"
  /\ UNCHANGED <<figmaData, orchFramework, faultAt, phaseIdx, phaseStart, now,
                 console, metricsPhases, pipeline, phaseResults, thrown>>
  /\ UNCHANGED callLog


----------------------------------------------------------------------------
(* 32-bit integer arithmetic of JavaScript's bitwise operators             *)
(* A 32-bit value is kept as two 16-bit halves, so that no intermediate    *)
(* result leaves the range of the model checker's integers.                *)

Half == 65536

Zero32 == [hi |-> 0, lo |-> 0]

\* h << 5
Shl5(h) ==
  [hi |-> (h.hi * 32 + (h.lo * 32) \div Half) % Half,
   lo |-> (h.lo * 32) % Half]

\* (a - b) wrapped to 32 bits
Sub32(a, b) ==
  LET lod == a.lo - b.lo + Half
      borrow == 1 - (lod \div Half)
  IN  [hi |-> (a.hi - b.hi - borrow + 2 * Half) % Half, lo |-> lod % Half]

\* (a + n) wrapped to 32 bits, for a character code n
Add32(a, n) ==
  LET los == a.lo + n
  IN  [hi |-> (a.hi + los \div Half) % Half, lo |-> los % Half]

IsNegative32(h) == h.hi >= 32768

\* -h in two's complement
Neg32(h) == Add32([hi |-> (Half - 1) - h.hi, lo |-> (Half - 1) - h.lo], 1)

Base36Digits ==
  <<"0","1","2","3","4","5","6","7","8","9","a","b","c","d","e","f","g","h",
    "i","j","k","l","m","n","o","p","q","r","s","t","u","v","w","x","y","z">>

\* digits of an unsigned 32-bit value in base 36, most significant first
RECURSIVE Digits36(_)
Digits36(u) ==
  LET qh  == u.hi \div 36
      mid == (u.hi % 36) * Half + u.lo
      q   == [hi |-> qh, lo |-> mid \div 36]
      d   == Base36Digits[(mid % 36) + 1]
  IN  IF q = Zero32 THEN <<d>> ELSE Append(Digits36(q), d)

\* Number.prototype.toString(36) of a signed 32-bit integer
toString36(h) ==
  IF IsNegative32(h) THEN <<"-">> \o Digits36(Neg32(h)) ELSE Digits36(h)

\* hash = ((hash << 5) - hash) + char; hash = hash & hash
\* (the sum is exact in a double, so wrapping each step equals wrapping the sum)
HashStep(hash, char) == Add32(Sub32(Shl5(hash), hash), char)

\* the for loop over the characters of str, left to right; the fold over
\* str is taken as the fold over its first half followed by the fold over its
\* second half, which keeps the evaluation depth logarithmic in Len(str)
RECURSIVE HashLoop(_, _)
HashLoop(hash, str) ==
  IF str = <<>> THEN hash
  ELSE IF Len(str) = 1 THEN HashStep(hash, charCodeAt(str[1]))
  ELSE LET m    == Len(str) \div 2
           left == HashLoop(hash, SubSeq(str, 1, m))
       IN  IF left.hi >= 0 THEN HashLoop(left, SubSeq(str, m + 1, Len(str)))
           ELSE Zero32

\* the rolling hash shared by OptimizationEngine.generateComponentHash,
\* PerformanceOptimizer.simpleHash and ComponentLibraryManager.hashString
simpleHash(str) == toString36(HashLoop(Zero32, str))


----------------------------------------------------------------------------
(* Text helpers for the regular expressions of the optimizers *)

StartsWith(s, t) == Len(s) >= Len(t) /\ SubSeq(s, 1, Len(t)) = t

Drop(s, n) == SubSeq(s, n + 1, Len(s))

\* the least member of a set of positions, 0 when the set is empty
First(S) == IF S = {} THEN 0 ELSE CHOOSE i \in S : \A j \in S : i <= j

\* position of the first occurrence of t in s, 0 when there is none
IndexOf(s, t) ==
  First({i \in 1..(Len(s) - Len(t) + 1) : SubSeq(s, i, i + Len(t) - 1) = t})

\* the leading run matched by \s*
LeadingSpaces(s) ==
  IF \A i \in 1..Len(s) : IsSpace(s[i]) THEN Len(s)
  ELSE (CHOOSE i \in 1..Len(s) :
          ~IsSpace(s[i]) /\ \A j \in 1..(i - 1) : IsSpace(s[j])) - 1

DropSpaces(s) == Drop(s, LeadingSpaces(s))

TrailingSpaces(s) ==
  IF \A i \in 1..Len(s) : IsSpace(s[i]) THEN Len(s)
  ELSE Len(s) - (CHOOSE i \in 1..Len(s) :
                   ~IsSpace(s[i]) /\ \A j \in (i + 1)..Len(s) : IsSpace(s[j]))

\* String.prototype.trim
trim(s) == DropSpaces(SubSeq(s, 1, Len(s) - TrailingSpaces(s)))

\* the first position from i on that holds no white space (Len(s) + 1 when
\* there is none), and the last position up to i that holds none (0 when
\* there is none)
RECURSIVE SkipSpaces(_, _)
SkipSpaces(s, i) ==
  IF i > Len(s) \/ ~IsSpace(s[i]) THEN i ELSE SkipSpaces(s, i + 1)

RECURSIVE SkipSpacesBack(_, _)
SkipSpacesBack(s, i) ==
  IF i < 1 \/ ~IsSpace(s[i]) THEN i ELSE SkipSpacesBack(s, i - 1)

\* the positions of a text, in order
Positions(s) == [i \in 1..Len(s) |-> i]

\* String.prototype.split on a one-character separator
split(s, sep) ==
  LET cuts == SelectSeq(Positions(s), LAMBDA i : s[i] = sep)
  IN  [k \in 1..(Len(cuts) + 1) |->
         SubSeq(s,
                IF k = 1 THEN 1 ELSE cuts[k - 1] + 1,
                IF k = Len(cuts) + 1 THEN Len(s) ELSE cuts[k] - 1)]

\* Array.prototype.join (the parts are joined half by half)
RECURSIVE join(_, _)
join(parts, sep) ==
  IF parts = <<>> THEN <<>>
  ELSE IF Len(parts) = 1 THEN parts[1]
  ELSE LET m == Len(parts) \div 2
       IN  join(SubSeq(parts, 1, m), sep) \o sep
             \o join(SubSeq(parts, m + 1, Len(parts)), sep)

----------------------------------------------------------------------------
(* OptimizationEngine: the passes on one component's text *)

\* css.split('}').filter(rule => rule.trim() && !rule.includes('{ }')).join('}\n')
removeUnusedCSS(css) ==
  join(SelectSeq(split(css, "}"),
                 LAMBDA rule : trim(rule) # <<>>
                               /\ ~includes(rule, <<"{", " ", "}">>)),
       <<"}", "\n">>)

\* .replace(/\/\*[\s\S]*?\*\//g, '')
\* (leftmost comment first: the text before it is kept, the comment runs to
\* the first closing mark, and the rest is rewritten in the same way)
RECURSIVE StripComments(_)
StripComments(s) ==
  LET closes == {j \in 1..(Len(s) - 1) : s[j] = "*" /\ s[j + 1] = "/"}
      start  == First({i \in 1..(Len(s) - 1) :
                         /\ s[i] = "/"
                         /\ s[i + 1] = "*"
                         /\ \E j \in closes : j >= i + 2})
      stop   == First({j \in closes : j >= start + 2})
  IN  IF start = 0 THEN s
      ELSE SubSeq(s, 1, start - 1) \o StripComments(Drop(s, stop + 1))

\* .replace(/\s+/g, ' ')
\* (every character that is not white space is kept, and every run of white
\* space is represented by one blank at the position where the run starts)
CollapseSpaces(s) ==
  LET kept == SelectSeq(Positions(s),
                        LAMBDA i : \/ ~IsSpace(s[i])
                                   \/ i = 1
                                   \/ ~IsSpace(s[i - 1]))
  IN  [k \in 1..Len(kept) |-> IF IsSpace(s[kept[k]]) THEN " " ELSE s[kept[k]]]

\* .replace(/;\s*}/g, '}')
\* (a match is a semicolon, the white space after it and the closing brace:
\* the semicolon and the white space go, the brace stays)
SemicolonBeforeBrace(s) ==
  LET BraceNext(i) == SkipSpaces(s, i) <= Len(s) /\ s[SkipSpaces(s, i)] = "}"
      Deleted(i) ==
        \/ s[i] = ";" /\ BraceNext(i + 1)
        \/ /\ IsSpace(s[i])
           /\ SkipSpacesBack(s, i) >= 1
           /\ s[SkipSpacesBack(s, i)] = ";"
           /\ BraceNext(i)
      kept == SelectSeq(Positions(s), LAMBDA i : ~Deleted(i))
  IN  [k \in 1..Len(kept) |-> s[kept[k]]]

\* .replace(/\s*{\s*/g, '{')
\* (the white space that leads to an opening brace or follows one goes)
SpacesAroundBrace(s) ==
  LET Deleted(i) ==
        /\ IsSpace(s[i])
        /\ \/ SkipSpaces(s, i) <= Len(s) /\ s[SkipSpaces(s, i)] = "{"
           \/ SkipSpacesBack(s, i) >= 1 /\ s[SkipSpacesBack(s, i)] = "{"
      kept == SelectSeq(Positions(s), LAMBDA i : ~Deleted(i))
  IN  [k \in 1..Len(kept) |-> s[kept[k]]]

\* .replace(/;\s*/g, ';') and .replace(/:\s*/g, ':')
\* (the white space that follows a c goes)
SpacesAfter(s, c) ==
  LET Deleted(i) ==
        /\ IsSpace(s[i])
        /\ SkipSpacesBack(s, i) >= 1
        /\ s[SkipSpacesBack(s, i)] = c
      kept == SelectSeq(Positions(s), LAMBDA i : ~Deleted(i))
  IN  [k \in 1..Len(kept) |-> s[kept[k]]]

\* OptimizationEngine.minifyCSS
minifyCSS(css) ==
  trim(SpacesAfter(SpacesAfter(SpacesAroundBrace(SemicolonBeforeBrace(
         CollapseSpaces(StripComments(css)))), ";"), ":"))

ImgS     == <<"<","i","m","g">>
SrcS     == <<"s","r","c","=","\"">>
LazyS    == <<" ","l","o","a","d","i","n","g","=","\"","l","a","z","y","\""," ","d",
    "e","c","o","d","i","n","g","=","\"","a","s","y","n","c","\"">>

\* a match of /<img([^>]*?)src="([^"]+)"([^>]*?)>/ at the start of s, with the
\* first group of length k: the length of the whole match, 0 when none
ImgMatchLen(s, k) ==
  LET afterSrc == Drop(s, 4 + k + 5)
      q        == IndexOf(afterSrc, <<"\"">>)
      afterUrl == Drop(afterSrc, q)
      g        == IndexOf(afterUrl, <<">">>)
  IN  IF /\ StartsWith(s, ImgS)
         /\ Len(s) >= 4 + k + 5
         /\ \A i \in 5..(4 + k) : s[i] # ">"
         /\ SubSeq(s, 4 + k + 1, 4 + k + 5) = SrcS
         /\ q > 1
         /\ g > 0
      THEN 4 + k + 5 + q + g
      ELSE 0

\* the lazy first group: the smallest k with a match
ImgFirstGroup(s) ==
  IF \E k \in 0..Len(s) : ImgMatchLen(s, k) > 0
  THEN CHOOSE k \in 0..Len(s) :
         /\ ImgMatchLen(s, k) > 0
         /\ \A j \in 0..(k - 1) : ImgMatchLen(s, j) = 0
  ELSE -1

\* OptimizationEngine.optimizeImages:
\* jsx.replace(/<img([^>]*?)src="([^"]+)"([^>]*?)>/g,
\*             '<img$1src="$2" loading="lazy" decoding="async"$3>')
\* (leftmost match first: the text before it is kept, the match gets the
\* two attributes after its src, and the rest is rewritten in the same way)
RECURSIVE optimizeImages(_)
optimizeImages(jsx) ==
  LET start == First({i \in 1..(Len(jsx) - 3) :
                        /\ SubSeq(jsx, i, i + 3) = ImgS
                        /\ ImgFirstGroup(Drop(jsx, i - 1)) >= 0})
      tag      == Drop(jsx, start - 1)
      k        == ImgFirstGroup(tag)
      n        == ImgMatchLen(tag, k)
      afterSrc == Drop(tag, 4 + k + 5)
      q        == IndexOf(afterSrc, <<"\"">>)
  IN  IF start = 0 THEN jsx
      ELSE SubSeq(jsx, 1, start - 1)
             \o SubSeq(tag, 1, 4 + k + 5 + q) \o LazyS
             \o SubSeq(tag, 4 + k + 5 + q + 1, n)
             \o optimizeImages(Drop(tag, n))


----------------------------------------------------------------------------
(* OptimizationEngine and PerformanceOptimizer: component batches *)

\* OptimizationEngine.generateComponentHash / PerformanceOptimizer.generateComponentHash
generateComponentHash(component) == simpleHash(component.jsx \o component.css)

\* Map.prototype.has on a map kept as its entries in insertion order
MapHas(entries, key) == \E i \in 1..Len(entries) : entries[i].key = key

\* Map.prototype.set
MapSet(entries, key, value) ==
  IF MapHas(entries, key)
  THEN [i \in 1..Len(entries) |->
          IF entries[i].key = key THEN [key |-> key, value |-> value]
          ELSE entries[i]]
  ELSE Append(entries, [key |-> key, value |-> value])

\* Array.from(map.values())
MapValues(entries) == [i \in 1..Len(entries) |-> entries[i].value]

\* components.forEach(component => { if (!uniqueComponents.has(hash)) ... })
\* (Len(next) is never negative: the test makes the model checker evaluate
\* next before the recursive call)
RECURSIVE DedupLoop(_, _)
DedupLoop(components, uniqueComponents) ==
  IF components = <<>> THEN uniqueComponents
  ELSE LET component == Head(components)
           hash == generateComponentHash(component)
           next == IF ~MapHas(uniqueComponents, hash)
                   THEN MapSet(uniqueComponents, hash, component)
                   ELSE uniqueComponents
       IN  IF Len(next) >= 0 THEN DedupLoop(Tail(components), next) ELSE <<>>

\* a deduplication in which the last component with a hash replaces the first
RECURSIVE DedupLoop_LastWins(_, _)
DedupLoop_LastWins(components, uniqueComponents) ==
  IF components = <<>> THEN uniqueComponents
  ELSE LET component == Head(components)
           next == MapSet(uniqueComponents, generateComponentHash(component),
                          component)
       IN  IF Len(next) >= 0 THEN DedupLoop_LastWins(Tail(components), next)
           ELSE <<>>

deduplicateComponents_LastWins(components) ==
  MapValues(DedupLoop_LastWins(components, <<>>))

\* OptimizationEngine.deduplicateComponents
deduplicateComponents(components) == MapValues(DedupLoop(components, <<>>))

\* PerformanceOptimizer.deduplicateComponents: the same loop, which also
\* counts the duplicates in metrics.duplicateComponents
PerformanceOptimizer_deduplicateComponents(components, count) ==
  LET unique == MapValues(DedupLoop(components, <<>>))
  IN  [components |-> unique,
       duplicateComponents |-> count + (Len(components) - Len(unique))]

\* OptimizationEngine.treeShakeUnusedCode
treeShakeUnusedCode(components) ==
  [i \in 1..Len(components) |->
     [components[i] EXCEPT !.css = removeUnusedCSS(components[i].css)]]

\* OptimizationEngine.optimizeCSS
optimizeCSS(components) ==
  [i \in 1..Len(components) |->
     [components[i] EXCEPT !.css = minifyCSS(components[i].css)]]

\* OptimizationEngine.optimizeAssets
optimizeAssets(components) ==
  [i \in 1..Len(components) |->
     [components[i] EXCEPT !.jsx = optimizeImages(components[i].jsx)]]

\* a pipeline that minifies before it tree-shakes
optimizeComponents_MinifyFirst(components, config) ==
  LET o1 == IF config.enableComponentDeduplication
            THEN deduplicateComponents(components) ELSE components
      o2 == IF config.enableCSSMinification THEN optimizeCSS(o1) ELSE o1
      o3 == IF config.enableTreeShaking THEN treeShakeUnusedCode(o2) ELSE o2
      o4 == IF config.enableAssetOptimization THEN optimizeAssets(o3) ELSE o3
  IN  o4

\* OptimizationEngine.optimizeComponents
optimizeComponents(components, config) ==
  LET o1 == IF config.enableComponentDeduplication
            THEN deduplicateComponents(components) ELSE components
      o2 == IF config.enableTreeShaking THEN treeShakeUnusedCode(o1) ELSE o1
      o3 == IF config.enableCSSMinification THEN optimizeCSS(o2) ELSE o2
      o4 == IF config.enableAssetOptimization THEN optimizeAssets(o3) ELSE o3
  IN  o4

\* texts the generated components of a batch are drawn from
JsxPool ==
  {<<"A","a">>, <<"B","B">>, <<"<","i","m","g"," ","s","r","c","=","\"","u","\"",">">>}
CssPool ==
  {<<>>, <<".","a"," ","{"," ","b",":"," ","c",";"," ","}">>}

OptTexts == [jsx : JsxPool, css : CssPool]

\* batches of generated components; ids are the positions in the batch
OptBatches(maxLen) ==
  UNION {{[i \in 1..n |-> [id |-> i, jsx |-> t[i].jsx, css |-> t[i].css]] :
            t \in [1..n -> OptTexts]} : n \in 0..maxLen}

OptConfigs ==
  [enableComponentDeduplication : BOOLEAN, enableTreeShaking : BOOLEAN,
   enableCSSMinification : BOOLEAN, enableAssetOptimization : BOOLEAN]

\* the asset pass has not been applied a second time
NotAgain == [done |-> FALSE, components |-> <<>>]

OptInit ==
  /\ optConfig \in OptConfigs
  /\ optInput \in OptBatches(MaxBatch)
  /\ optOutput = <<>>
  /\ optBy = "none"
  /\ duplicateComponents = 0
  /\ optAgain = NotAgain

\* new OptimizationEngine(config.optimization).optimizeComponents(components)
OptimizeComponents ==
  /\ optBy = "none"
  /\ optOutput' = optimizeComponents(optInput, optConfig)
  /\ optBy' = "OptimizationEngine"
  /\ UNCHANGED <<optConfig, optInput, duplicateComponents, optAgain>>

\* PerformanceOptimizer.deduplicateComponents(components)
PerformanceDeduplicate ==
  /\ optBy = "none"
  /\ LET r == PerformanceOptimizer_deduplicateComponents(optInput, duplicateComponents)
     IN  /\ optOutput' = r.components
         /\ duplicateComponents' = r.duplicateComponents
  /\ optBy' = "PerformanceOptimizer"
  /\ UNCHANGED <<optConfig, optInput, optAgain>>

\* the asset pass applied to the batch an optimizeComponents call with
\* enableAssetOptimization has returned, that is, to markup the pass has
\* already rewritten
OptimizeAssetsAgain ==
  /\ optBy = "OptimizationEngine"
  /\ optConfig.enableAssetOptimization
  /\ ~optAgain.done
  /\ optAgain' = [done |-> TRUE, components |-> optimizeAssets(optOutput)]
  /\ UNCHANGED <<optConfig, optInput, optOutput, optBy, duplicateComponents>>


----------------------------------------------------------------------------
(* ComponentLibraryManager: reusability extraction *)

ClassNameS     == <<"c","l","a","s","s","N","a","m","e","=","\"">>
ClassNameStarS == <<"c","l","a","s","s","N","a","m","e","=","\"","*","\"">>
ClassNamePropS == <<"c","l","a","s","s","N","a","m","e","=","{","c","l","a","s","s","N","a",
    "m","e","}">>
BraceStarS     == <<"{","*","}">>
ChildrenS      == <<"{","c","h","i","l","d","r","e","n","}">>
BaseS          == <<"B","a","s","e">>
BaseIdS        == <<"b","a","s","e","-">>
ColorPrimaryS  == <<"v","a","r","(","-","-","c","o","l","o","r","-","p","r","i","m","a","r",
    "y",")">>
SpacingMdS     == <<"v","a","r","(","-","-","s","p","a","c","i","n","g","-","m","d",")">>

\* .replace(/className="[^"]*"/g, replacement)
\* (leftmost match first: the text before it is kept, the match runs to the
\* first closing quote, and the rest is rewritten in the same way)
RECURSIVE ReplaceClassName(_, _)
ReplaceClassName(s, replacement) ==
  LET n      == Len(ClassNameS)
      quotes == {j \in 1..Len(s) : s[j] = "\""}
      start  == First({i \in 1..(Len(s) - n + 1) :
                         /\ SubSeq(s, i, i + n - 1) = ClassNameS
                         /\ \E j \in quotes : j >= i + n})
      stop   == First({j \in quotes : j >= start + n})
  IN  IF start = 0 THEN s
      ELSE SubSeq(s, 1, start - 1) \o replacement
             \o ReplaceClassName(Drop(s, stop), replacement)

\* .replace(/\{[^}]*\}/g, replacement)
\* (leftmost match first: the text before it is kept, the match runs to the
\* first closing brace, and the rest is rewritten in the same way)
RECURSIVE ReplaceBraces(_, _)
ReplaceBraces(s, replacement) ==
  LET closes == {j \in 1..Len(s) : s[j] = "}"}
      start  == First({i \in 1..Len(s) :
                         s[i] = "{" /\ \E j \in closes : j > i})
      stop   == First({j \in closes : j > start})
  IN  IF start = 0 THEN s
      ELSE SubSeq(s, 1, start - 1) \o replacement
             \o ReplaceBraces(Drop(s, stop), replacement)

\* ComponentLibraryManager.extractPattern
extractPattern(component) ==
  simpleHash(ReplaceBraces(ReplaceClassName(CollapseSpaces(component.jsx),
                                            ClassNameStarS),
                           BraceStarS))

\* ComponentLibraryManager.analyzeComponentPatterns: the map from pattern to
\* the components having it, in insertion order
RECURSIVE analyzeComponentPatternsLoop(_, _)
analyzeComponentPatternsLoop(components, patterns) ==
  IF components = <<>> THEN patterns
  ELSE LET component == Head(components)
           pattern == extractPattern(component)
           next == IF MapHas(patterns, pattern)
                   THEN [i \in 1..Len(patterns) |->
                           IF patterns[i].key = pattern
                           THEN [patterns[i] EXCEPT !.value = Append(@, component)]
                           ELSE patterns[i]]
                   ELSE MapSet(patterns, pattern, <<component>>)
       IN  IF Len(next) >= 0
           THEN analyzeComponentPatternsLoop(Tail(components), next)
           ELSE <<>>

analyzeComponentPatterns(components) ==
  analyzeComponentPatternsLoop(components, <<>>)

\* ComponentLibraryManager.createBaseComponent
createBaseComponent(component, pattern) ==
  [component EXCEPT
     !.id = BaseIdS \o pattern,
     !.name = BaseS \o component.name,
     !.metadata = [@ EXCEPT !.componentType = "layout", !.isBaseComponent = TRUE]]

\* ComponentLibraryManager.extractReusableComponents
RECURSIVE extractReusableComponents(_)
extractReusableComponents(patterns) ==
  IF patterns = <<>> THEN <<>>
  ELSE (IF Len(Head(patterns).value) >= 3
        THEN <<createBaseComponent(Head(patterns).value[1], Head(patterns).key)>>
        ELSE <<>>)
       \o extractReusableComponents(Tail(patterns))

\* ComponentLibraryManager.findMatchingBaseComponent: the index of the first
\* base whose id includes the component's pattern, 0 for null
findMatchingBaseComponent(component, baseComponents) ==
  LET componentPattern == extractPattern(component)
      matches == {i \in 1..Len(baseComponents) :
                    includes(baseComponents[i].id, componentPattern)}
  IN  IF matches = {} THEN 0
      ELSE CHOOSE i \in matches : \A j \in matches : i <= j

\* ComponentLibraryManager.updateJSXToExtendBase
updateJSXToExtendBase(jsx, baseName) ==
  <<"i","m","p","o","r","t"," ","{"," ">> \o baseName \o <<" ","}"," ","f","r","o","m"," ","'",".","/">>
    \o baseName \o <<"'",";">> \o <<"\n", "\n">> \o jsx

\* ComponentLibraryManager.updateCSSToExtendBase
updateCSSToExtendBase(css, baseName) ==
  <<"@","i","m","p","o","r","t"," ","'",".","/">> \o baseName \o <<".","c","s","s","'",";">>
    \o <<"\n", "\n">> \o css

\* ComponentLibraryManager.extendBaseComponent
extendBaseComponent(component, baseComponent) ==
  [component EXCEPT
     !.jsx = updateJSXToExtendBase(component.jsx, baseComponent.name),
     !.css = updateCSSToExtendBase(component.css, baseComponent.name),
     !.metadata = [@ EXCEPT !.extendsComponent = baseComponent.name]]

\* ComponentLibraryManager.updateComponentsWithReusablePatterns
updateComponentsWithReusablePatterns(components, reusableComponents) ==
  [i \in 1..Len(components) |->
     LET b == findMatchingBaseComponent(components[i], reusableComponents)
     IN  IF b # 0 THEN extendBaseComponent(components[i], reusableComponents[b])
         ELSE components[i]]

\* ComponentLibraryManager.generateBaseJSX
generateBaseJSX(component) ==
  ReplaceBraces(ReplaceClassName(component.jsx, ClassNamePropS), ChildrenS)

IsHex(c) == IsDigit(c) \/ charCodeAt(c) \in 65..70 \/ charCodeAt(c) \in 97..102

\* .replace(/#[a-fA-F0-9]{6}/g, 'var(--color-primary)')
RECURSIVE ReplaceHexColors(_)
ReplaceHexColors(s) ==
  LET start == First({i \in 1..(Len(s) - 6) :
                        s[i] = "#" /\ \A k \in 1..6 : IsHex(s[i + k])})
  IN  IF start = 0 THEN s
      ELSE SubSeq(s, 1, start - 1) \o ColorPrimaryS
             \o ReplaceHexColors(Drop(s, start + 6))

\* .replace(/\d+px/g, 'var(--spacing-md)')
\* (DigitsEnd(s, i) is the last position of the run of digits that holds i)
DigitsEnd(s, i) ==
  First({j \in i..Len(s) : j = Len(s) \/ ~IsDigit(s[j + 1])})

RECURSIVE ReplacePixels(_)
ReplacePixels(s) ==
  LET start == First({i \in 1..Len(s) :
                        /\ IsDigit(s[i])
                        /\ DigitsEnd(s, i) + 2 <= Len(s)
                        /\ SubSeq(s, DigitsEnd(s, i) + 1, DigitsEnd(s, i) + 2)
                             = <<"p", "x">>})
  IN  IF start = 0 THEN s
      ELSE SubSeq(s, 1, start - 1) \o SpacingMdS
             \o ReplacePixels(Drop(s, DigitsEnd(s, start) + 2))

\* ComponentLibraryManager.generateBaseCSS
generateBaseCSS(component) == ReplacePixels(ReplaceHexColors(component.css))

\* ComponentLibraryManager.generateBaseComponents
generateBaseComponents(reusableComponents) ==
  [i \in 1..Len(reusableComponents) |->
     [reusableComponents[i] EXCEPT
        !.jsx = generateBaseJSX(reusableComponents[i]),
        !.css = generateBaseCSS(reusableComponents[i])]]

\* ComponentLibraryManager.optimizeForReusability
optimizeForReusability(components) ==
  LET patterns == analyzeComponentPatterns(components)
      reusableComponents == extractReusableComponents(patterns)
      optimized == updateComponentsWithReusablePatterns(components, reusableComponents)
      baseComponents == generateBaseComponents(reusableComponents)
  IN  optimized \o baseComponents


\* jsx bodies of library components: "E" and "!" have the patterns "1x" and
\* "x", the two brace bodies normalise to one pattern
LibJsxPool == {<<"E">>, <<"!">>, <<"{","a","}">>, <<"{","b","}">>}

LibCss == <<"a","{","w",":","4","p","x","}">>

\* GeneratedComponent values as the generators emit them: distinct ids and
\* names, no base and no extension yet
LibComponent(i, jsx) ==
  [id |-> <<Base36Digits[i + 1]>>,
   name |-> <<"C", Base36Digits[i + 1]>>,
   jsx |-> jsx,
   css |-> LibCss,
   metadata |-> [componentType |-> "complex", isBaseComponent |-> FALSE,
                 extendsComponent |-> <<>>]]

LibBatches(maxLen) ==
  UNION {{[i \in 1..n |-> LibComponent(i, t[i])] : t \in [1..n -> LibJsxPool]} :
           n \in 0..maxLen}

LibInit ==
  /\ libInput \in LibBatches(MaxLibBatch)
  /\ libOutput = <<>>
  /\ libDone = FALSE

\* ComponentLibraryManager.optimizeForReusability(components)
OptimizeForReusability ==
  /\ ~libDone
  /\ libOutput' = optimizeForReusability(libInput)
  /\ libDone' = TRUE
  /\ UNCHANGED libInput

----------------------------------------------------------------------------
(* Properties of GenerationOrchestrator.generateEnterprise *)

\* number of "Starting" lines among the first i console lines
StartsUpTo(i) == Cardinality({j \in 1..i : console[j].kind = "start"})

PhaseFailed == \E i \in 1..Len(console) : console[i].kind = "failed"

\* C1: in every run of generateEnterprise the phases start in the fixed order
\* Analysis, Generation, Optimization, Quality Validation, Documentation,
\* Testing, Packaging: the k-th phase started is the k-th of that order, and
\* it starts directly after the phase before it was logged and recorded as
\* completed successfully, so none is skipped, repeated or reordered.
C1_PhasesStartInOrder ==
  /\ \A i \in 1..Len(console) :
       console[i].kind = "start" =>
         LET k == StartsUpTo(i)
         IN  /\ k <= NumPhases
             /\ console[i].phase = PhaseOrder[k]
             /\ IF k = 1 THEN i = 1
                ELSE /\ i > 1
                     /\ console[i - 1] = [kind |-> "completed", phase |-> PhaseOrder[k - 1]]
                     /\ Len(metricsPhases) >= k - 1
                     /\ metricsPhases[k - 1].name = PhaseOrder[k - 1]
                     /\ metricsPhases[k - 1].success
  /\ \A j \in 1..Len(metricsPhases) :
       j <= NumPhases /\ metricsPhases[j].name = PhaseOrder[j]

\* a run that went through all seven phases
C1_Witness ==
  /\ pc = "done"
  /\ ~outcome.failed
  /\ StartsUpTo(Len(console)) = NumPhases
  /\ Len(metricsPhases) = NumPhases

\* C2: when a phase throws, that phase is the last one recorded, with its
\* name, the time elapsed since it started and the error thrown; it is the
\* last phase started; and the run ends in the failed outcome, whose result
\* carries no components.
C2_FailedPhaseRecorded ==
  /\ (pc = "done" /\ outcome.failed) => thrown # NoError
  /\ (thrown # NoError \/ PhaseFailed) =>
       /\ pc \in {"catch", "done"}
       /\ Len(metricsPhases) = phaseIdx
       /\ LET last == metricsPhases[phaseIdx]
          IN  /\ last.name = PhaseOrder[phaseIdx]
              /\ ~last.success
              /\ last.error = thrown
              /\ last.error # NoError
              /\ last.duration = last.endTime - phaseStart
              /\ last.duration >= 0
       /\ \A j \in 1..(phaseIdx - 1) : metricsPhases[j].success
       /\ console[Len(console)] = [kind |-> "failed", phase |-> PhaseOrder[phaseIdx]]
       /\ StartsUpTo(Len(console)) = phaseIdx
       /\ pc = "done" =>
            /\ outcome.kind = "resolved"
            /\ outcome.failed
            /\ outcome.value.components = <<>>

\* a run that failed in its fourth phase, some time after the phase started
C2_Witness ==
  /\ pc = "done"
  /\ outcome.failed
  /\ phaseIdx = 4
  /\ metricsPhases[4].duration > 0
  /\ ~metricsPhases[4].success

\* the fields of the result a successful run resolves to
SuccessFields ==
  DOMAIN pipeline_package(figmaData, orchFramework, "none", pipeline).value

ZeroScores(result) ==
  /\ result.quality.overallScore = 0
  /\ result.quality.visualAccuracy = 0
  /\ result.quality.codeQuality = 0
  /\ result.quality.accessibility = 0
  /\ result.quality.performance = 0
  /\ result.performance.bundleSize = 0
  /\ result.performance.renderTime = 0
  /\ result.performance.memoryUsage = 0
  /\ result.performance.optimizationSavings = 0

\* the message the error handler reports for an Error: errors that look like
\* network errors are reported by a fixed message
ReportedMessage(error) ==
  IF error.name # "TypeError"
     /\ (error.name = "NetworkError" \/ includes(error.message, FetchS))
  THEN NetworkFailedS
  ELSE error.message

FallbackShape ==
  /\ outcome.kind = "resolved"
  /\ outcome.failed
  /\ outcome.value.components = <<>>
  /\ ZeroScores(outcome.value)
  /\ DOMAIN outcome.value = SuccessFields

C4_NoPhaseForUnsupportedFramework ==
  orchFramework \notin ValidFrameworks =>
    /\ console = <<>>
    /\ metricsPhases = <<>>

\* C7: analysis of a response without a document fails with an InputError.
C7_MissingDocumentIsInputError ==
  (~figmaData.hasDocument /\ thrown # NoError) => thrown.name = "InputError"


----------------------------------------------------------------------------
(* Properties of strategy selection and name sanitization *)

\* ^[A-Z][A-Za-z0-9]*$
ValidIdentifier(s) ==
  /\ s # <<>>
  /\ IsUpper(s[1])
  /\ \A i \in 1..Len(s) : IsAlnum(s[i])

\* C5: for every framework value, emission uses the strategy of exactly that
\* framework or fails with an error naming the unsupported value.
C5_NoSilentFallback ==
  genOut.by # "none" =>
    IF genOut.threw
    THEN /\ genFramework \notin ValidFrameworks
         /\ includes(genOut.error.message, genFramework)
    ELSE genOut.component.syntax = genFramework

\* C8: for every input x and the sanitizer of every strategy,
\* sanitize(sanitize(x)) = sanitize(x) and sanitize(x) is an upper-case letter
\* followed by ASCII letters and digits; the sanitizers agree on every input,
\* and the name of an emitted component is such an identifier.
C8_SanitizeIdempotentIdentifier ==
  /\ LET r == ReactGenerator_sanitizeComponentName(genInput)
         v == VueGenerator_sanitizeComponentName(genInput)
         a == AngularGenerator_sanitizeComponentName(genInput)
         s == SvelteGenerator_sanitizeComponentName(genInput)
         e == EnterpriseCodeGenerator_sanitizeComponentName(genInput)
     IN  /\ ValidIdentifier(r) /\ ReactGenerator_sanitizeComponentName(r) = r
         /\ ValidIdentifier(v) /\ VueGenerator_sanitizeComponentName(v) = v
         /\ ValidIdentifier(a) /\ AngularGenerator_sanitizeComponentName(a) = a
         /\ ValidIdentifier(s) /\ SvelteGenerator_sanitizeComponentName(s) = s
         /\ ValidIdentifier(e) /\ EnterpriseCodeGenerator_sanitizeComponentName(e) = e
         /\ r = v /\ v = a /\ a = s /\ s = e
  /\ (genOut.by # "none" /\ ~genOut.threw) => ValidIdentifier(genOut.component.name)

\* a name with a leading digit and a separator was sanitized and emitted
C8_Witness ==
  /\ genOut.by = "factory"
  /\ ~genOut.threw
  /\ genInput = <<"7", "-", "a">>
  /\ genOut.component.name = ComponentS \o <<"7", "a">>

----------------------------------------------------------------------------
(* Properties of ConfigurationManager.validateConfig *)

\* the constraints of the configuration that are violated
Violations(config) ==
  (IF config.framework \notin {ReactS, VueS, AngularS, SvelteS}
   THEN {"framework"} ELSE {})
  \cup (IF config.styling \notin {"tailwind", "css-modules", "styled-components",
                                   "emotion", "vanilla-extract"}
        THEN {"styling"} ELSE {})
  \cup (IF ~(config.optimization.maxBundleSize > 0) THEN {"maxBundleSize"} ELSE {})
  \cup (IF ~(0 <= config.optimization.targetPerformanceScore
             /\ config.optimization.targetPerformanceScore <= 100)
        THEN {"targetPerformanceScore"} ELSE {})

ViolationMessage(config, v) ==
  CASE v = "framework" -> [text |-> "Invalid framework: ", arg |-> config.framework]
    [] v = "styling" -> [text |-> "Invalid styling: ", arg |-> config.styling]
    [] v = "maxBundleSize" ->
         [text |-> "Max bundle size must be greater than 0", arg |-> NoArg]
    [] v = "targetPerformanceScore" ->
         [text |-> "Target performance score must be between 0 and 100",
          arg |-> NoArg]

----------------------------------------------------------------------------
(* Properties of deduplication *)

SameText(a, b) == a.jsx = b.jsx /\ a.css = b.css

OutputIds == {optOutput[i].id : i \in 1..Len(optOutput)}

\* the output lists components of the batch in the order of the batch, each
\* at most once (a component's id is its position in the batch)
OrderPreserved ==
  /\ OutputIds \subseteq 1..Len(optInput)
  /\ \A a, b \in 1..Len(optOutput) : a < b => optOutput[a].id < optOutput[b].id

\* C9 (as stated): of the components of the batch with one jsx+css text
\* exactly one, the first of them, is in the output of optimizeComponents,
\* and the output keeps the order of the batch.
C9_OneOfIdenticalTextSurvives ==
  optBy # "none" =>
    /\ OrderPreserved
    /\ \A i \in 1..Len(optInput) :
         (\E j \in 1..Len(optInput) : j # i /\ SameText(optInput[i], optInput[j])) =>
            (i \in OutputIds <=>
               ~\E j \in 1..(i - 1) : SameText(optInput[j], optInput[i]))

Deduplicating ==
  \/ optBy = "PerformanceOptimizer"
  \/ optBy = "OptimizationEngine" /\ optConfig.enableComponentDeduplication

\* C9 (amended): when deduplication runs (always in
\* PerformanceOptimizer.deduplicateComponents, in
\* OptimizationEngine.optimizeComponents when enableComponentDeduplication
\* is set), of the components of the batch sharing one structural hash exactly
\* one, the first of them, is in the output, so of two components with
\* identical jsx+css text the later one is never in the output; when it does
\* not run every component is in the output; in both cases the output keeps
\* the order of the batch.
C9_FirstOfEachHashSurvives ==
  optBy # "none" =>
    /\ OrderPreserved
    /\ Deduplicating =>
         /\ \A i \in 1..Len(optInput) :
              i \in OutputIds <=>
                ~\E j \in 1..(i - 1) :
                    generateComponentHash(optInput[j]) = generateComponentHash(optInput[i])
         /\ \A i, j \in 1..Len(optInput) :
              (i < j /\ SameText(optInput[i], optInput[j])) => j \notin OutputIds
    /\ ~Deduplicating => OutputIds = 1..Len(optInput)

\* the engine dropped the third component, a copy of the first, and kept the
\* second
C9_Witness ==
  /\ optBy = "OptimizationEngine"
  /\ optConfig.enableComponentDeduplication
  /\ Len(optInput) = 3
  /\ SameText(optInput[1], optInput[3])
  /\ ~SameText(optInput[1], optInput[2])
  /\ OutputIds = {1, 2}

\* C15: the asset pass is idempotent: applied to the batch it has already
\* rewritten, it returns that batch unchanged (no <img> tag gets
\* loading="lazy" decoding="async" a second time).
C15_AssetPassIdempotent ==
  optAgain.done => optAgain.components = optOutput

\* the toggles of the passes, in the order the claim gives
PassToggles ==
  <<optConfig.enableComponentDeduplication, optConfig.enableTreeShaking,
    optConfig.enableCSSMinification, optConfig.enableAssetOptimization>>

\* pass number p applied to a batch
ApplyPass(p, batch) ==
  CASE p = 1 -> deduplicateComponents(batch)
    [] p = 2 -> treeShakeUnusedCode(batch)
    [] p = 3 -> optimizeCSS(batch)
    [] p = 4 -> optimizeAssets(batch)

\* the batch after the enabled ones of the passes 1..p, in that order
RECURSIVE AfterPasses(_)
AfterPasses(p) ==
  IF p = 0 THEN optInput
  ELSE IF PassToggles[p] THEN ApplyPass(p, AfterPasses(p - 1))
       ELSE AfterPasses(p - 1)

\* C25: OptimizationEngine.optimizeComponents applies deduplication,
\* tree-shaking, minification and asset rewriting in that order, each only
\* when its toggle is set; with the four toggles off the output is the input
\* (same components, same order, same jsx and css); and no step modifies the
\* input batch or its components.
C25_OrderedToggledPasses ==
  /\ [](optBy = "OptimizationEngine" =>
          /\ optOutput = AfterPasses(4)
          /\ (\A p \in 1..4 : ~PassToggles[p]) => optOutput = optInput)
  /\ [][optInput' = optInput]_vars

\* the four passes ran on a batch whose stylesheet comes out differently when
\* minification runs before tree-shaking, and whose markup the asset pass
\* rewrote
C25_Witness ==
  /\ optBy = "OptimizationEngine"
  /\ \A p \in 1..4 : PassToggles[p]
  /\ Len(optInput) = 2 /\ Len(optOutput) = 2
  /\ optOutput[1].css = minifyCSS(removeUnusedCSS(optInput[1].css))
  /\ optOutput[1].css # removeUnusedCSS(minifyCSS(optInput[1].css))
  /\ optOutput[2].jsx # optInput[2].jsx

\* the text deduplication hashes: jsx followed by css
ContentOf(component) == component.jsx \o component.css

\* C22: deduplication removes only textually identical components: a
\* component of the batch whose jsx+css text differs from the text of every
\* other component of the batch is in the output.
C22_DistinctTextSurvives ==
  optBy # "none" =>
    \A i \in 1..Len(optInput) :
      (\A j \in 1..Len(optInput) :
          j # i => ContentOf(optInput[j]) # ContentOf(optInput[i]))
        => i \in OutputIds

\* what the loop does keep: a component whose hash differs from the hash of
\* every other component of the batch
DistinctHashSurvives ==
  optBy # "none" =>
    \A i \in 1..Len(optInput) :
      (\A j \in 1..Len(optInput) :
          j # i => generateComponentHash(optInput[j]) # generateComponentHash(optInput[i]))
        => i \in OutputIds

----------------------------------------------------------------------------
(* Properties of reusability extraction *)

LibMembers(pattern) ==
  {i \in 1..Len(libInput) : extractPattern(libInput[i]) = pattern}

LibPatterns == {extractPattern(libInput[i]) : i \in 1..Len(libInput)}

LibBases(pattern) ==
  {k \in 1..Len(libOutput) :
     /\ libOutput[k].metadata.isBaseComponent
     /\ libOutput[k].id = BaseIdS \o pattern}

\* C10: for every fingerprint group of the batch with at least 3 members the
\* output holds exactly one base component, its name prefixed Base, and each
\* member is rewritten to import that base (import prepended to its jsx,
\* @import prepended to its css); a group with fewer than 3 members yields no
\* base component.
C10_GroupsOfThreeGetOneBase ==
  libDone =>
    \A pattern \in LibPatterns :
      IF Cardinality(LibMembers(pattern)) >= 3
      THEN /\ Cardinality(LibBases(pattern)) = 1
           /\ \A k \in LibBases(pattern) :
                /\ StartsWith(libOutput[k].name, BaseS)
                /\ \A i \in LibMembers(pattern) :
                     /\ libOutput[i].jsx =
                          updateJSXToExtendBase(libInput[i].jsx, libOutput[k].name)
                     /\ libOutput[i].css =
                          updateCSSToExtendBase(libInput[i].css, libOutput[k].name)
      ELSE LibBases(pattern) = {}


----------------------------------------------------------------------------
(* ReactGenerator: the text emitted for one Figma node                     *)
(* A node is a record id, name, type, characters, children; an absent      *)
(* characters field is the empty string (both are falsy).                  *)

toLowerCase(c) == IF IsUpper(c) THEN fromCharCode(charCodeAt(c) + 32) ELSE c

\* String.prototype.toLowerCase
LowerCase(s) == [i \in 1..Len(s) |-> toLowerCase(s[i])]

\* .replace(/\s+/g, '-')
RECURSIVE DashSpaces(_)
DashSpaces(s) ==
  IF s = <<>> THEN <<>>
  ELSE IF IsSpace(Head(s)) THEN <<"-">> \o DashSpaces(DropSpaces(s))
  ELSE <<Head(s)>> \o DashSpaces(Tail(s))

\* `.${node.name.toLowerCase().replace(/\s+/g, '-')}`
ClassNameOf(node) == <<".">> \o DashSpaces(LowerCase(node.name))

DivOpenS == <<"<","d","i","v"," ","c","l","a","s","s","N","a","m","e","=","\"">>
ButtonS  == <<"b","u","t","t","o","n">>

\* ReactGenerator.generateChildren
RECURSIVE generateChildren(_)
generateChildren(node) ==
  IF node.type = "TEXT"
  THEN DivOpenS \o ClassNameOf(node) \o <<"\"",">","{">>
         \o (IF node.characters # <<>>
             THEN <<"\"">> \o node.characters \o <<"\"">>
             ELSE <<"c","h","i","l","d","r","e","n">>)
         \o <<"}","<","/","d","i","v",">">>
  ELSE IF Len(node.children) > 0
  THEN DivOpenS \o ClassNameOf(node) \o <<"\"",">","\n"," "," "," "," ">>
         \o join([i \in 1..Len(node.children) |-> generateChildren(node.children[i])],
                 <<"\n"," "," "," "," ">>)
         \o <<"\n"," "," ","<","/","d","i","v",">">>
  ELSE DivOpenS \o ClassNameOf(node) \o <<"\""," ","/",">">>

\* ReactGenerator.extractProps: the props' names and types (nodes carry no
\* image fills)
extractProps(node) ==
  IF node.characters # <<>>
  THEN <<[name |-> <<"t","e","x","t">>, type |-> <<"s","t","r","i","n","g">>]>>
  ELSE <<>>

\* ReactGenerator.generateHooks
generateHooks(node) ==
  IF includes(LowerCase(node.name), ButtonS)
  THEN <<<<"c","o","n","s","t"," ","[","i","s","P","r","e","s","s","e","d",","," ",
          "s","e","t","I","s","P","r","e","s","s","e","d","]"," ","="," ","u","s",
          "e","S","t","a","t","e","(","f","a","l","s","e",")",";">>>>
  ELSE <<>>

\* ReactGenerator.generateImports
generateImports(node) ==
  IF \E i \in 1..Len(generateHooks(node)) :
       includes(generateHooks(node)[i], <<"u","s","e","S","t","a","t","e">>)
  THEN <<<<"i","m","p","o","r","t"," ","R","e","a","c","t",","," ","{"," ","u","s",
          "e","S","t","a","t","e"," ","}"," ","f","r","o","m"," ","\"","r","e",
          "a","c","t","\"",";">>>>
  ELSE <<<<"i","m","p","o","r","t"," ","R","e","a","c","t"," ","f","r","o","m"," ",
          "\"","r","e","a","c","t","\"",";">>>>

\* ReactGenerator.generatePropsInterface
generatePropsInterface(props, componentName) ==
  <<"i","n","t","e","r","f","a","c","e"," ">> \o componentName \o <<"P","r","o","p","s"," ","{","\n"," "," ">>
    \o join([i \in 1..Len(props) |->
               props[i].name \o <<"?", ":", " ">> \o props[i].type \o <<";">>],
            <<"\n"," "," ">>)
    \o <<"\n"," "," ","c","l","a","s","s","N","a","m","e","?",":"," ","s","t",
      "r","i","n","g",";","\n"," "," ","c","h","i","l","d","r","e","n","?",
      ":"," ","R","e","a","c","t",".","R","e","a","c","t","N","o","d","e",";",
      "\n","}">>

\* ReactGenerator.generateJSX
generateJSX(config, node, componentName) ==
  LET props == extractProps(node)
      children == generateChildren(node)
      hooks == generateHooks(node)
      imports == generateImports(node)
      propNames == join([i \in 1..Len(props) |-> props[i].name], <<",", " ">>)
      propsInterface == IF config.typescript
                        THEN generatePropsInterface(props, componentName)
                        ELSE <<>>
      componentSignature ==
        IF config.typescript
        THEN <<"e","x","p","o","r","t"," ","c","o","n","s","t"," ">> \o componentName
               \o <<":"," ","R","e","a","c","t",".","F","C","<">> \o componentName
               \o <<"P","r","o","p","s",">"," ","="," ","(","{"," ">> \o propNames \o <<" ","}",")">>
        ELSE <<"e","x","p","o","r","t"," ","c","o","n","s","t"," ">> \o componentName
               \o <<" ","="," ","(","{"," ">> \o propNames \o <<" ","}",")">>
      hooksSection ==
        IF Len(hooks) > 0
        THEN <<"\n"," "," ","/","/"," ","H","o","o","k","s","\n"," "," ">> \o join(hooks, <<"\n"," "," ">>) \o <<"\n">>
        ELSE <<>>
      themeHook == IF config.enableThemeSupport
                   THEN <<"\n"," "," ","c","o","n","s","t"," ","t","h","e","m","e"," ","="," ",
                     "u","s","e","T","h","e","m","e","(",")",";">>
                   ELSE <<>>
      i18nHook == IF config.enableI18n
                  THEN <<"\n"," "," ","c","o","n","s","t"," ","{"," ","t"," ","}"," ","="," ",
                    "u","s","e","T","r","a","n","s","l","a","t","i","o","n","(",")",";">>
                  ELSE <<>>
  IN  join(imports, <<"\n">>) \o <<"\n">>
        \o (IF config.enableThemeSupport
            THEN <<"i","m","p","o","r","t"," ","{"," ","u","s","e","T","h","e","m","e"," ",
              "}"," ","f","r","o","m"," ","'",".",".","/","h","o","o","k","s","/","u",
              "s","e","T","h","e","m","e","'",";">>
            ELSE <<>>)
        \o <<"\n">>
        \o (IF config.enableI18n
            THEN <<"i","m","p","o","r","t"," ","{"," ","u","s","e","T","r","a","n","s","l",
              "a","t","i","o","n"," ","}"," ","f","r","o","m"," ","'","r","e","a","c",
              "t","-","i","1","8","n","e","x","t","'",";">>
            ELSE <<>>)
        \o <<"\n", "\n">> \o propsInterface \o <<"\n">>
        \o componentSignature \o <<" ","=",">"," ","{">> \o hooksSection \o themeHook \o i18nHook
        \o <<"\n"," "," ","r","e","t","u","r","n"," ","(","\n"," "," "," "," ">> \o children
        \o <<"\n"," "," ",")",";","\n","}",";","\n","\n","e","x","p","o","r","t"," ",
    "d","e","f","a","u","l","t"," ">> \o componentName \o <<";">>

\* ReactGenerator.getComponentType
\* a heuristic that compares the name as it is written
getComponentType_CaseSensitive(node) ==
  IF node.type = "TEXT" THEN "text"
  ELSE IF node.type = "FRAME" THEN "layout"
  ELSE IF includes(node.name, ButtonS) THEN "button"
  ELSE IF includes(node.name, <<"c","a","r","d">>) THEN "card"
  ELSE IF includes(node.name, <<"i","n","p","u","t">>) THEN "input"
  ELSE "complex"

\* ReactGenerator.getComponentType
getComponentType(node) ==
  IF node.type = "TEXT" THEN "text"
  ELSE IF node.type = "FRAME" THEN "layout"
  ELSE IF includes(LowerCase(node.name), ButtonS) THEN "button"
  ELSE IF includes(LowerCase(node.name), <<"c","a","r","d">>) THEN "card"
  ELSE IF includes(LowerCase(node.name), <<"i","n","p","u","t">>) THEN "input"
  ELSE "complex"

\* ReactGenerator.generateMetadata; isBaseComponent and extendsComponent are
\* absent from the object the generator builds (undefined when read): they
\* are carried as FALSE and the empty text, for the library manager to set
generateMetadata(node, time) ==
  [figmaNodeId |-> node.id, componentType |-> getComponentType(node),
   complexity |-> "medium", estimatedAccuracy |-> 85, generationTime |-> time,
   isBaseComponent |-> FALSE, extendsComponent |-> <<>>]


\* ReactGenerator.generateBaseCSS, for a node without layout, spacing,
\* padding, background and corner properties (styles stays empty)
ReactGenerator_generateBaseCSS(node) ==
  ClassNameOf(node) \o <<" ","{","\n"," "," ","\n","}">>

\* ReactGenerator.generateResponsiveCSS
generateResponsiveCSS(node) ==
  <<"@","m","e","d","i","a"," ","(","m","a","x","-","w","i","d","t","h",":",
    " ","7","6","8","p","x",")"," ","{","\n"," "," ">>
    \o ClassNameOf(node) \o <<" ","{","\n"," "," "," "," ","p","a","d","d","i","n","g",":"," ","1",
      "r","e","m",";","\n"," "," ","}","\n","}","\n","\n","@","m","e","d","i",
      "a"," ","(","m","i","n","-","w","i","d","t","h",":"," ","1","0","2","4",
      "p","x",")"," ","{","\n"," "," ">>
    \o ClassNameOf(node) \o <<" ","{","\n"," "," "," "," ","p","a","d","d","i","n","g",":"," ","2",
      "r","e","m",";","\n"," "," ","}","\n","}">>

ThemeBodyS ==
  <<" ","{","\n"," "," ","c","o","l","o","r",":"," ","h","s","l","(","v",
    "a","r","(","-","-","f","o","r","e","g","r","o","u","n","d",")",")",";",
    "\n"," "," ","b","a","c","k","g","r","o","u","n","d",":"," ","h","s",
    "l","(","v","a","r","(","-","-","b","a","c","k","g","r","o","u","n","d",
    ")",")",";","\n","}">>

\* ReactGenerator.generateThemeCSS
generateThemeCSS(node) ==
  ClassNameOf(node) \o ThemeBodyS \o <<"\n","\n","[","d","a","t","a","-","t","h","e","m","e","=","\"","d","a",
    "r","k","\"","]"," ">>
    \o ClassNameOf(node) \o ThemeBodyS

\* ReactGenerator.generateAnimationCSS
generateAnimationCSS(node) ==
  ClassNameOf(node) \o <<" ","{","\n"," "," ","t","r","a","n","s","i","t","i","o","n",":"," ",
    "a","l","l"," ","0",".","3","s"," ","e","a","s","e",";","\n","}","\n",
    "\n">>
    \o ClassNameOf(node) \o <<":","h","o","v","e","r"," ","{","\n"," "," ","t","r","a","n","s","f",
      "o","r","m",":"," ","t","r","a","n","s","l","a","t","e","Y","(","-","2",
      "p","x",")",";","\n","}">>

\* ReactGenerator.generateCSS
generateCSS(config, node) ==
  trim(ReactGenerator_generateBaseCSS(node) \o <<"\n", "\n">>
         \o generateResponsiveCSS(node) \o <<"\n", "\n">>
         \o (IF config.enableThemeSupport THEN generateThemeCSS(node) ELSE <<>>)
         \o <<"\n", "\n">> \o generateAnimationCSS(node))

\* a generator that stamps the markup with the clock
ReactGenerator_emitComponent_Stamped(config, node, componentName, time) ==
  LET sanitizedName == ReactGenerator_sanitizeComponentName(componentName)
  IN  [id |-> node.id,
       name |-> sanitizedName,
       jsx |-> generateJSX(config, node, sanitizedName)
                 \o <<"\n", "/", "/", " ", Base36Digits[time + 1]>>,
       css |-> generateCSS(config, node),
       metadata |-> generateMetadata(node, time)]

\* ReactGenerator.generateComponent with all the text it emits; time is the
\* value Date.now() returns in generateMetadata
ReactGenerator_emitComponent(config, node, componentName, time) ==
  LET sanitizedName == ReactGenerator_sanitizeComponentName(componentName)
  IN  [id |-> node.id,
       name |-> sanitizedName,
       jsx |-> generateJSX(config, node, sanitizedName),
       css |-> generateCSS(config, node),
       metadata |-> generateMetadata(node, time)]

\* ReactGenerator.generateLayoutComponent
generateLayoutComponent(config, frame, time) ==
  ReactGenerator_emitComponent(config, frame, frame.name \o <<"L","a","y","o","u","t">>, time)


\* ReactGenerator.findNodeById: the node found, in a sequence of at most one
RECURSIVE findNodeById(_, _)
findNodeById(node, id) ==
  IF node.id = id THEN <<node>>
  ELSE LET found == [i \in 1..Len(node.children) |->
                       findNodeById(node.children[i], id)]
           hits == {i \in 1..Len(found) : found[i] # <<>>}
       IN  IF hits = {} THEN <<>>
           ELSE found[CHOOSE i \in hits : \A j \in hits : i <= j]

\* concatenation of a sequence of sequences: push(...list) for each of them
RECURSIVE Flatten(_)
Flatten(lists) ==
  IF lists = <<>> THEN <<>> ELSE Head(lists) \o Flatten(Tail(lists))

\* ReactGenerator.findFrames
RECURSIVE findFrames(_)
findFrames(node) ==
  (IF node.type = "FRAME" THEN <<node>> ELSE <<>>)
    \o Flatten([i \in 1..Len(node.children) |-> findFrames(node.children[i])])

\* ReactGenerator.generateComponents
ReactGenerator_generateComponents(config, document, components, time) ==
  Flatten([i \in 1..Len(components) |->
             LET node == findNodeById(document, components[i].key)
             IN  IF node # <<>>
                 THEN <<ReactGenerator_emitComponent(config, node[1],
                                                     components[i].name, time)>>
                 ELSE <<>>])
    \o [i \in 1..Len(findFrames(document)) |->
          generateLayoutComponent(config, findFrames(document)[i], time)]

----------------------------------------------------------------------------
(* Figma documents handed to the React generator *)

TextNode(id, name, characters) ==
  [id |-> id, name |-> name, type |-> "TEXT", characters |-> characters,
   children |-> <<>>]

\* a node with one TEXT child
ParentNode(id, name, type, characters) ==
  [id |-> id, name |-> name, type |-> type, characters |-> <<>>,
   children |-> <<TextNode(id \o <<";", "1">>, <<"L", "a", "b", "e", "l">>,
                           characters)>>]

PrimaryButtonS == <<"P","r","i","m","a","r","y"," ","B","u","t","t","o","n">>
ClickMeS       == <<"C","l","i","c","k"," ","m","e">>

\* the kinds of node a document is assembled from: three frames of one
\* structure under different names, a button component and a button instance
NodeKinds ==
  <<[name |-> <<"A">>, type |-> "FRAME", characters |-> <<"H", "i">>],
    [name |-> <<"B">>, type |-> "FRAME", characters |-> <<"H", "i">>],
    [name |-> <<"C">>, type |-> "FRAME", characters |-> <<"H", "i">>],
    [name |-> PrimaryButtonS, type |-> "COMPONENT", characters |-> ClickMeS],
    [name |-> <<"o","k","B","U","T","T","O","N">>, type |-> "INSTANCE",
     characters |-> <<"G", "o">>]>>

\* node ids are unique in a Figma file: the id holds the position
NodeIdAt(i) == <<"1", ":", Base36Digits[i + 1]>>

\* documents with up to maxLen children; the generator handles the children
\* one by one, so they are listed kind by kind
Documents(maxLen) ==
  UNION {{[id |-> <<"0", ":", "0">>, name |-> <<"D", "o", "c">>,
           type |-> "DOCUMENT", characters |-> <<>>,
           children |-> [i \in 1..n |->
                           ParentNode(NodeIdAt(i), NodeKinds[k[i]].name,
                                      NodeKinds[k[i]].type,
                                      NodeKinds[k[i]].characters)]] :
            k \in {f \in [1..n -> 1..Len(NodeKinds)] :
                     \A i \in 1..(n - 1) : f[i] <= f[i + 1]}} : n \in 0..maxLen}

\* figmaData.components: entries for the children in keep, in the order of
\* the document
ComponentEntries(document, keep) ==
  Flatten([i \in 1..Len(document.children) |->
             IF i \in keep
             THEN <<[key |-> document.children[i].id,
                     name |-> document.children[i].name]>>
             ELSE <<>>])

\* config.optimization as createDefaultConfig sets its toggles
DefaultOptimization ==
  [enableComponentDeduplication |-> TRUE, enableTreeShaking |-> TRUE,
   enableCSSMinification |-> TRUE, enableAssetOptimization |-> TRUE]

RxConfigs == [typescript : BOOLEAN, enableThemeSupport : {FALSE},
              enableI18n : {FALSE}, optimization : {DefaultOptimization}]

NotRun == [done |-> FALSE, time |-> 0, components |-> <<>>,
           optimized |-> FALSE, optimizedComponents |-> <<>>]

RxInit ==
  /\ rxConfig \in RxConfigs
  /\ rxDocument \in Documents(MaxDocNodes)
  /\ \E keep \in {{}, 1..Len(rxDocument.children)} :
        rxComponents = ComponentEntries(rxDocument, keep)
  /\ rxClock = 0
  /\ rxRuns = [r \in 1..2 |-> NotRun]
  /\ rxLibrary = [done |-> FALSE, output |-> <<>>]

\* Date.now() advances between the runs
RxTick ==
  /\ rxRuns[1].optimized
  /\ ~rxRuns[2].done
  /\ rxClock < MaxRxClock
  /\ rxClock' = rxClock + 1
  /\ UNCHANGED <<rxConfig, rxDocument, rxComponents, rxRuns, rxLibrary>>

\* new ReactGenerator(config).generateComponents(figmaData, analysis): the
\* runs are independent, the second follows the first
RxGenerateComponents(r) ==
  /\ ~rxRuns[r].done
  /\ r = 2 => rxRuns[1].optimized
  /\ rxRuns' = [rxRuns EXCEPT ![r] =
                  [@ EXCEPT !.done = TRUE, !.time = rxClock,
                            !.components = ReactGenerator_generateComponents(
                               rxConfig, rxDocument, rxComponents, rxClock)]]
  /\ UNCHANGED <<rxConfig, rxDocument, rxComponents, rxClock, rxLibrary>>

\* new OptimizationEngine(config.optimization).optimizeComponents(components)
\* on the components the run generated
RxOptimizeComponents(r) ==
  /\ rxRuns[r].done
  /\ ~rxRuns[r].optimized
  /\ r = 1 => rxLibrary.done
  /\ rxRuns' = [rxRuns EXCEPT ![r] =
                  [@ EXCEPT !.optimized = TRUE,
                            !.optimizedComponents = optimizeComponents(
                               rxRuns[r].components, rxConfig.optimization)]]
  /\ UNCHANGED <<rxConfig, rxDocument, rxComponents, rxClock, rxLibrary>>

\* ComponentLibraryManager.optimizeForReusability on the components the first
\* run generated, before that run goes on
RxOptimizeForReusability ==
  /\ rxRuns[1].done
  /\ ~rxLibrary.done
  /\ rxLibrary' = [done |-> TRUE,
                   output |-> optimizeForReusability(rxRuns[1].components)]
  /\ UNCHANGED <<rxConfig, rxDocument, rxComponents, rxClock, rxRuns>>

----------------------------------------------------------------------------
(* Properties of the React strategy and the library manager on documents *)

\* the children of two nodes agree in everything but their ids
SameChildren(a, b) ==
  /\ Len(a.children) = Len(b.children)
  /\ \A i \in 1..Len(a.children) :
       /\ a.children[i].type = b.children[i].type
       /\ a.children[i].name = b.children[i].name
       /\ a.children[i].characters = b.children[i].characters

\* the document holds three FRAME nodes with identical children and pairwise
\* different names, and no entry of the components map adds to them
ThreeFramesDifferentNames ==
  /\ Len(rxDocument.children) = 3
  /\ rxComponents = <<>>
  /\ \A i \in 1..3 : rxDocument.children[i].type = "FRAME"
  /\ \A i, j \in 1..3 :
       /\ SameChildren(rxDocument.children[i], rxDocument.children[j])
       /\ i # j => rxDocument.children[i].name # rxDocument.children[j].name

RxBases ==
  {k \in 1..Len(rxLibrary.output) : rxLibrary.output[k].metadata.isBaseComponent}

RxMembers ==
  {k \in 1..Len(rxLibrary.output) : ~rxLibrary.output[k].metadata.isBaseComponent}

\* C11: three FRAME nodes with identical children and different names,
\* generated by the React strategy and passed to the library manager, fall
\* into one fingerprint group: the output holds exactly one base component
\* and three member components, each of them importing the base.
C11_ThreeFramesShareOneBase ==
  (rxLibrary.done /\ ThreeFramesDifferentNames) =>
    /\ Cardinality(RxBases) = 1
    /\ Cardinality(RxMembers) = 3
    /\ \A k \in RxBases : \A i \in RxMembers :
         StartsWith(rxLibrary.output[i].jsx,
                    updateJSXToExtendBase(<<>>, rxLibrary.output[k].name))

\* two batches agree in the number, order and identity of their components
\* and in every character of the text emitted for them
SameContent(a, b) ==
  /\ Len(a) = Len(b)
  /\ \A i \in 1..Len(a) :
       /\ a[i].id = b[i].id
       /\ a[i].name = b[i].name
       /\ a[i].jsx = b[i].jsx
       /\ a[i].css = b[i].css

\* C16: two independent runs on the same document with the same configuration
\* produce the same components in the same order with identical jsx and css,
\* after generation and after optimization, whatever the clock reads.
C16_RunsEmitIdenticalText ==
  (rxRuns[1].optimized /\ rxRuns[2].optimized) =>
    /\ SameContent(rxRuns[1].components, rxRuns[2].components)
    /\ SameContent(rxRuns[1].optimizedComponents, rxRuns[2].optimizedComponents)

\* both runs are through, the clock read differently in them, and the
\* difference shows in the metadata of their components
C16_Witness ==
  /\ rxRuns[1].optimized
  /\ rxRuns[2].optimized
  /\ Len(rxRuns[1].optimizedComponents) >= 2
  /\ rxRuns[1].components[1].metadata.generationTime
       # rxRuns[2].components[1].metadata.generationTime

\* the characters of the TEXT nodes in the subtree of a node
RECURSIVE TextsOf(_)
TextsOf(node) ==
  (IF node.type = "TEXT" /\ node.characters # <<>> THEN {node.characters} ELSE {})
    \cup UNION {TextsOf(node.children[i]) : i \in 1..Len(node.children)}

\* the node of the document a generated component was made from
NodeOf(component) == findNodeById(rxDocument, component.id)[1]

PrimaryButtonNameS == <<"P","r","i","m","a","r","y","B","u","t","t","o","n">>

\* C18: a component generated from a node that is neither TEXT nor FRAME and
\* whose name contains "button" in any case has componentType button; the
\* markup of every generated component contains the characters of every TEXT
\* descendant of its node; the COMPONENT node "Primary Button" with the TEXT
\* child "Click me", registered under its own name, yields the component
\* named PrimaryButton, typed button, with Click me in its markup.
C18_ButtonHeuristicAndText ==
  rxRuns[1].done =>
    \A i \in 1..Len(rxRuns[1].components) :
      LET component == rxRuns[1].components[i]
          node      == NodeOf(component)
      IN  /\ (/\ node.type \notin {"TEXT", "FRAME"}
              /\ includes(LowerCase(node.name), ButtonS))
               => component.metadata.componentType = "button"
          /\ \A text \in TextsOf(node) : includes(component.jsx, text)
          /\ (node.name = PrimaryButtonS /\ node.type = "COMPONENT")
               => /\ component.name = PrimaryButtonNameS
                  /\ component.metadata.componentType = "button"
                  /\ includes(component.jsx, ClickMeS)

\* the Primary Button component has been generated
C18_Witness ==
  /\ rxRuns[1].done
  /\ \E i \in 1..Len(rxRuns[1].components) :
       /\ NodeOf(rxRuns[1].components[i]).name = PrimaryButtonS
       /\ NodeOf(rxRuns[1].components[i]).type = "COMPONENT"
       /\ TextsOf(NodeOf(rxRuns[1].components[i])) = {ClickMeS}
       /\ rxRuns[1].components[i].name = PrimaryButtonNameS

----------------------------------------------------------------------------
(* PerformanceOptimizer: bundle size; the performance reports *)

ExtractedS    == <<"{"," ","/","*"," ","e","x","t","r","a","c","t","e","d"," ","t","o"," ",
                  "u","t","i","l","i","t","y"," ","*","/"," ","}">>
UtilityOpenS  == <<".","u","t","i","l","i","t","y","-">>
ApplyOpenS    == <<"{"," ","@","a","p","p","l","y"," ","u","t","i","l","i","t","y","-">>
CodeSplitS    == <<"C","o","n","s","i","d","e","r"," ","e","n","a","b","l","i","n","g"," ",
                  "c","o","d","e"," ","s","p","l","i","t","t","i","n","g"," ","f","o","r",
                  " ","l","a","r","g","e"," ","b","u","n","d","l","e","s">>
DuplicatesS   == <<" ","d","u","p","l","i","c","a","t","e"," ","c","o","m","p","o","n","e",
                  "n","t","s"," ","f","o","u","n","d"," ","-"," ","e","n","a","b","l","e",
                  " ","d","e","d","u","p","l","i","c","a","t","i","o","n">>
ChunkS        == <<"c","h","u","n","k","-">>
DecimalDigits == <<"0","1","2","3","4","5","6","7","8","9">>

\* String(n) of a natural number
RECURSIVE NumberToString(_)
NumberToString(n) ==
  IF n < 10 THEN <<DecimalDigits[n + 1]>>
  ELSE Append(NumberToString(n \div 10), DecimalDigits[(n % 10) + 1])

\* the members of a list, each at its first occurrence: the keys of a Set or
\* a Map in insertion order
Unique(list) ==
  LET firsts == SelectSeq(Positions(list),
                          LAMBDA i : \A j \in 1..(i - 1) : list[j] # list[i])
  IN  [k \in 1..Len(firsts) |-> list[firsts[k]]]

\* concatenation of a list of lists, half by half
RECURSIVE ConcatAll(_)
ConcatAll(lists) ==
  IF lists = <<>> THEN <<>>
  ELSE IF Len(lists) = 1 THEN lists[1]
  ELSE LET m == Len(lists) \div 2
       IN  ConcatAll(SubSeq(lists, 1, m)) \o ConcatAll(SubSeq(lists, m + 1, Len(lists)))

IsBrace(c) == c = "{" \/ c = "}"

\* the first brace after position q, 0 when there is none
NextBrace(s, q) == First({j \in (q + 1)..Len(s) : IsBrace(s[j])})

\* css.match(/[^{}]+\{[^{}]*\}/g) followed by
\* rule => rule.split('{')[1]?.replace('}', '').trim(): a match is a run of
\* other characters, an opening brace, other characters and a closing brace;
\* the list holds the trimmed text between the braces of each match
RuleBodies(css) ==
  LET opens == SelectSeq(Positions(css),
                         LAMBDA q : /\ css[q] = "{"
                                    /\ q >= 2
                                    /\ ~IsBrace(css[q - 1])
                                    /\ NextBrace(css, q) # 0
                                    /\ css[NextBrace(css, q)] = "}")
  IN  [k \in 1..Len(opens) |->
         trim(SubSeq(css, opens[k] + 1, NextBrace(css, opens[k]) - 1))]

\* PerformanceOptimizer.extractStyleRules: .filter(Boolean) drops the empty
extractStyleRules(css) == SelectSeq(RuleBodies(css), LAMBDA body : body # <<>>)

\* PerformanceOptimizer.extractCommonStylePatterns
extractCommonStylePatterns(components) ==
  Unique(ConcatAll([i \in 1..Len(components) |->
                      extractStyleRules(components[i].css)]))

\* optimized.replace(new RegExp("\\{\\s*" + escaped style + "\\s*\\}", 'g'),
\* replacement): a match is an opening brace, the style with white space
\* around it, and the closing brace
RECURSIVE ReplaceRuleBody(_, _, _)
ReplaceRuleBody(css, style, replacement) ==
  LET closes == {j \in 1..Len(css) : css[j] = "}"}
      Stop(q) == First({j \in closes : j > q})
      start == First({q \in 1..Len(css) :
                        /\ css[q] = "{"
                        /\ Stop(q) # 0
                        /\ trim(SubSeq(css, q + 1, Stop(q) - 1)) = style})
  IN  IF start = 0 THEN css
      ELSE SubSeq(css, 1, start - 1) \o replacement
             \o ReplaceRuleBody(Drop(css, Stop(start)), style, replacement)

\* PerformanceOptimizer.removeRedundantFromCSS: commonStyles.forEach
RECURSIVE removeRedundantFromCSS(_, _)
removeRedundantFromCSS(css, commonStyles) ==
  IF commonStyles = <<>> THEN css
  ELSE removeRedundantFromCSS(
         ReplaceRuleBody(css, Head(commonStyles), ExtractedS),
         Tail(commonStyles))

\* PerformanceOptimizer.removeRedundantStyles
removeRedundantStyles(components) ==
  LET commonStyles == extractCommonStylePatterns(components)
  IN  [i \in 1..Len(components) |->
         [components[i] EXCEPT
            !.css = removeRedundantFromCSS(components[i].css, commonStyles)]]

\* PerformanceOptimizer.generateUtilityClasses
generateUtilityClasses(commonStyles) ==
  join([i \in 1..Len(commonStyles) |->
          UtilityOpenS \o NumberToString(i - 1) \o <<" ", "{", "\n", " ", " ">>
            \o commonStyles[i] \o <<"\n", "}">>],
       <<"\n", "\n">>)

\* PerformanceOptimizer.replaceWithUtilities: commonStyles.forEach with the
\* index; done is the number of styles already handled
RECURSIVE replaceWithUtilitiesFrom(_, _, _)
replaceWithUtilitiesFrom(css, commonStyles, done) ==
  IF done = Len(commonStyles) THEN css
  ELSE replaceWithUtilitiesFrom(
         ReplaceRuleBody(css, commonStyles[done + 1],
                         ApplyOpenS \o NumberToString(done) \o <<";", " ", "}">>),
         commonStyles, done + 1)

replaceWithUtilities(css, commonStyles) ==
  replaceWithUtilitiesFrom(css, commonStyles, 0)

\* PerformanceOptimizer.updateJSXWithUtilities
updateJSXWithUtilities(jsx, commonStyles) == jsx

\* PerformanceOptimizer.extractCommonStyles
extractCommonStyles(components) ==
  LET styles == ConcatAll([i \in 1..Len(components) |->
                             extractStyleRules(components[i].css)])
      Count(style) == Cardinality({i \in 1..Len(styles) : styles[i] = style})
      commonStyles == SelectSeq(Unique(styles), LAMBDA style : Count(style) >= 3)
      utilityCSS == generateUtilityClasses(commonStyles)
  IN  [i \in 1..Len(components) |->
         [components[i] EXCEPT
            !.css = utilityCSS \o <<"\n", "\n">>
                      \o replaceWithUtilities(components[i].css, commonStyles),
            !.jsx = updateJSXWithUtilities(components[i].jsx, commonStyles)]]

\* PerformanceOptimizer.createComponentChunks and getComponentChunk: chunks
\* of Math.ceil(length / 5) components; the id of the first chunk that holds
\* a component with the id
getComponentChunk(componentId, components) ==
  LET chunkSize == (Len(components) + 4) \div 5
      holders == {i \in 1..Len(components) : components[i].id = componentId}
  IN  IF holders = {} THEN <<"d","e","f","a","u","l","t">>
      ELSE ChunkS \o NumberToString((First(holders) - 1) \div chunkSize)

\* PerformanceOptimizer.shouldLazyLoad
shouldLazyLoad(component, config) ==
  config.enableLazyLoading /\ component.metadata.complexity # "simple"

\* PerformanceOptimizer.applyCodeSplitting
applyCodeSplitting(components, config) ==
  [i \in 1..Len(components) |->
     [components[i] EXCEPT
        !.metadata = Spread(@,
           [chunkId |-> getComponentChunk(components[i].id, components),
            lazyLoad |-> shouldLazyLoad(components[i], config)])]]

\* PerformanceOptimizer.calculateBundleSize, in bytes: the code divides the
\* sum by 1024 and compares the quotient with maxBundleSize, which is the
\* comparison of the sum with maxBundleSize * 1024
RECURSIVE calculateBundleSize(_)
calculateBundleSize(components) ==
  IF components = <<>> THEN 0
  ELSE Len(Head(components).jsx) + Len(Head(components).css)
         + calculateBundleSize(Tail(components))

OverBudget(components, maxBundleSize) ==
  calculateBundleSize(components) > maxBundleSize * 1024

\* PerformanceOptimizer.optimizeBundleSize
optimizeBundleSize(components, config) ==
  IF ~OverBudget(components, config.maxBundleSize) THEN components
  ELSE LET o1 == removeRedundantStyles(components)
           o2 == extractCommonStyles(o1)
       IN  IF OverBudget(o2, config.maxBundleSize)
           THEN applyCodeSplitting(o2, config)
           ELSE o2

\* EnterpriseCodeGenerator.generatePerformanceReport; bundleSize in bytes
EnterpriseCodeGenerator_generatePerformanceReport(components, config, metrics) ==
  [bundleSize |-> calculateBundleSize(components),
   renderTime |-> metrics.renderTime,
   memoryUsage |-> metrics.memoryUsage,
   optimizationSavings |-> metrics.optimizationSavings,
   recommendations |->
     (IF OverBudget(components, config.maxBundleSize) THEN <<CodeSplitS>> ELSE <<>>)
     \o (IF metrics.duplicateComponents > 0
         THEN <<NumberToString(metrics.duplicateComponents) \o DuplicatesS>>
         ELSE <<>>)]

\* GenerationOrchestrator.generatePerformanceReport; bundleSize in bytes
GenerationOrchestrator_generatePerformanceReport(components, time) ==
  [bundleSize |-> calculateBundleSize(components),
   renderTime |-> 0,
   memoryUsage |-> 0,
   optimizationSavings |-> 0,
   recommendations |-> <<>>,
   generationTime |-> time]

\* the css of the components of a batch: a rule with a short body, a rule
\* with a long body, and no rule
PerfCssPool ==
  {<<".","a","{","b",":","1","}">>,
   <<".","a","{","c","o","l","o","r",":","r","e","d",";","b","a","c","k","g",
      "r","o","u","n","d",":","b","l","u","e",";","m","a","r","g","i","n",":",
      "0","}">>,
   <<>>}

\* markup of n characters; the bundle passes leave the markup alone
Filler(n) == [i \in 1..n |-> "x"]

PerfJsxLengths == {4, 1100}

PerfTexts == [jsx : {Filler(n) : n \in PerfJsxLengths}, css : PerfCssPool]

\* batches of generated components; the id holds the position in the batch
PerfBatches(maxLen) ==
  UNION {{[i \in 1..n |->
             [id |-> <<"c">> \o NumberToString(i), jsx |-> t[i].jsx,
              css |-> t[i].css, metadata |-> [complexity |-> "medium"]]] :
            t \in [1..n -> PerfTexts]} : n \in 0..maxLen}

\* the metrics of a PerformanceOptimizer as its constructor sets them
NoMetrics ==
  [cssSize |-> 0, jsSize |-> 0, componentCount |-> 0, duplicateComponents |-> 0,
   optimizationSavings |-> 0, renderTime |-> 0, memoryUsage |-> 0]

PerfInit ==
  /\ perfConfig \in [maxBundleSize : {1, 2}, enableLazyLoading : BOOLEAN]
  /\ perfMetrics \in {[NoMetrics EXCEPT !.duplicateComponents = d] : d \in {0, 2}}
  /\ perfInput \in PerfBatches(MaxPerfBatch)
  /\ perfOptimized = [done |-> FALSE, components |-> <<>>]
  /\ perfReports = [enterprise |-> <<>>, orchestrator |-> <<>>]

\* this.optimizer.optimizeBundleSize(optimized)
PerfOptimizeBundleSize ==
  /\ ~perfOptimized.done
  /\ perfOptimized' = [done |-> TRUE,
                       components |-> optimizeBundleSize(perfInput, perfConfig)]
  /\ UNCHANGED <<perfConfig, perfMetrics, perfInput, perfReports>>

\* EnterpriseCodeGenerator: this.generatePerformanceReport(optimizedComponents)
PerfEnterpriseReport ==
  /\ perfOptimized.done
  /\ perfReports.enterprise = <<>>
  /\ perfReports' = [perfReports EXCEPT !.enterprise =
       <<EnterpriseCodeGenerator_generatePerformanceReport(
           perfOptimized.components, perfConfig, perfMetrics)>>]
  /\ UNCHANGED <<perfConfig, perfMetrics, perfInput, perfOptimized>>

\* GenerationOrchestrator, package step:
\* this.generatePerformanceReport(optimizedComponents)
PerfOrchestratorReport ==
  /\ perfOptimized.done
  /\ perfReports.orchestrator = <<>>
  /\ \E time \in 0..1 :
       perfReports' = [perfReports EXCEPT !.orchestrator =
         <<GenerationOrchestrator_generatePerformanceReport(
             perfOptimized.components, time)>>]
  /\ UNCHANGED <<perfConfig, perfMetrics, perfInput, perfOptimized>>

----------------------------------------------------------------------------
(* Properties of the bundle size pass and the performance reports *)

\* C12: bundle-size optimization is monotone: the bundle size of the batch
\* optimizeBundleSize returns is at most the bundle size of the batch it was
\* given.
C12_OptimizeBundleSizeMonotone ==
  perfOptimized.done =>
    calculateBundleSize(perfOptimized.components) <= calculateBundleSize(perfInput)

\* a recommendation that speaks of the bundle
AboutBundleSize(recommendation) ==
  includes(LowerCase(recommendation), <<"b","u","n","d","l","e">>)

\* the performance reports produced for the optimized batch
PerfReportsMade == perfReports.enterprise \o perfReports.orchestrator

\* C13: when the optimized batch is still larger than maxBundleSize, the
\* performance report of the run has bundleSize greater than maxBundleSize
\* and at least one recommendation about the bundle size.
C13_OverBudgetIsRecommended ==
  OverBudget(perfOptimized.components, perfConfig.maxBundleSize) =>
    \A i \in 1..Len(PerfReportsMade) :
      /\ PerfReportsMade[i].bundleSize > perfConfig.maxBundleSize * 1024
      /\ \E k \in 1..Len(PerfReportsMade[i].recommendations) :
           AboutBundleSize(PerfReportsMade[i].recommendations[k])

----------------------------------------------------------------------------
(* Quality analysis: QualityAssurance and EnterpriseCodeGenerator *)

TsxS           == <<".","t","s","x">>
AriaS          == <<"a","r","i","a","-">>
RoleS          == <<"r","o","l","e","=">>
LoadingLazyS   == <<"l","o","a","d","i","n","g","=","\"","l","a","z","y","\"">>
TooLargeS      == <<"C","o","m","p","o","n","e","n","t"," ","i","s"," ","t","o","o"," ","l",
                    "a","r","g","e">>
BreakUpS       == <<"C","o","n","s","i","d","e","r"," ","b","r","e","a","k","i","n","g"," ",
                    "i","n","t","o"," ","s","m","a","l","l","e","r"," ","c","o","m","p","o",
                    "n","e","n","t","s">>
MissingA11yS   == <<"M","i","s","s","i","n","g"," ","a","c","c","e","s","s","i","b","i","l",
                    "i","t","y"," ","a","t","t","r","i","b","u","t","e","s">>
AddAriaS       == <<"A","d","d"," ","A","R","I","A"," ","l","a","b","e","l","s"," ","a","n",
                    "d"," ","r","o","l","e","s">>
LazyImagesS    == <<"I","m","a","g","e","s"," ","s","h","o","u","l","d"," ","u","s","e"," ",
                    "l","a","z","y"," ","l","o","a","d","i","n","g">>
AddLazyS       == <<"A","d","d"," ","l","o","a","d","i","n","g","=","\"","l","a","z","y",
                    "\""," ","t","o"," ","i","m","g"," ","t","a","g","s">>

\* QualityAssurance.analyzeComponent
analyzeComponent(component) ==
  (IF Len(component.jsx) > 1000
   THEN <<[type |-> "warning", category |-> "maintainability",
           message |-> TooLargeS, file |-> component.name \o TsxS,
           line |-> 1, fix |-> BreakUpS]>>
   ELSE <<>>)
  \o (IF ~includes(component.jsx, AriaS) /\ ~includes(component.jsx, RoleS)
      THEN <<[type |-> "warning", category |-> "accessibility",
              message |-> MissingA11yS, file |-> component.name \o TsxS,
              fix |-> AddAriaS]>>
      ELSE <<>>)
  \o (IF includes(component.jsx, ImgS) /\ ~includes(component.jsx, LoadingLazyS)
      THEN <<[type |-> "info", category |-> "performance",
              message |-> LazyImagesS, file |-> component.name \o TsxS,
              fix |-> AddLazyS]>>
      ELSE <<>>)

\* EnterpriseCodeGenerator.analyzeComponentQuality
analyzeComponentQuality(component) ==
  IF Len(component.jsx) > 1000
  THEN <<[type |-> "warning", category |-> "maintainability",
          message |-> TooLargeS, file |-> component.name \o TsxS,
          fix |-> BreakUpS]>>
  ELSE <<>>

\* the locals of analyzeQuality before its loop
QualityLocals ==
  [issues |-> <<>>, codeQuality |-> 100, accessibility |-> 100,
   performance |-> 100, maintainability |-> 100]

Max(a, b) == IF a >= b THEN a ELSE b

\* a loop over a list, taken as the loop over its first half followed by the
\* loop over its second half; Step(locals, item) is the body
RECURSIVE ForEach(_, _, _)
ForEach(Step(_, _), locals, list) ==
  IF list = <<>> THEN locals
  ELSE IF Len(list) = 1 THEN Step(locals, list[1])
  ELSE LET m    == Len(list) \div 2
           left == ForEach(Step, locals, SubSeq(list, 1, m))
       IN  IF DOMAIN left # {}
           THEN ForEach(Step, left, SubSeq(list, m + 1, Len(list)))
           ELSE left

\* QualityAssurance.analyzeQuality, the switch on issue.category
AssuranceScoreStep(locals, issue) ==
  CASE issue.category = "performance" ->
         [locals EXCEPT !.performance = Max(0, @ - 5)]
    [] issue.category = "accessibility" ->
         [locals EXCEPT !.accessibility = Max(0, @ - 10)]
    [] issue.category = "maintainability" ->
         [locals EXCEPT !.maintainability = Max(0, @ - 3)]
    [] OTHER -> locals

\* QualityAssurance.analyzeQuality, the body of the loop over the components
AssuranceComponentStep(locals, component) ==
  LET componentIssues == analyzeComponent(component)
  IN  ForEach(AssuranceScoreStep,
              [locals EXCEPT !.issues = @ \o componentIssues],
              componentIssues)

IssuesIn(issues, category) ==
  Cardinality({i \in 1..Len(issues) : issues[i].category = category})

\* QualityAssurance.generateRecommendations
generateRecommendations(issues) ==
  (IF IssuesIn(issues, "accessibility") > 0
   THEN <<<<"F","i","x"," ">> \o NumberToString(IssuesIn(issues, "accessibility"))
            \o <<" ","a","c","c","e","s","s","i","b","i","l","i","t","y"," ","i","s","s",
              "u","e","s"," ","f","o","r"," ","W","C","A","G"," ","c","o","m","p","l",
              "i","a","n","c","e">>>>
   ELSE <<>>)
  \o (IF IssuesIn(issues, "performance") > 0
      THEN <<<<"A","d","d","r","e","s","s"," ">>
               \o NumberToString(IssuesIn(issues, "performance"))
               \o <<" ","p","e","r","f","o","r","m","a","n","c","e"," ","o","p","t","i","m",
                 "i","z","a","t","i","o","n","s">>>>
      ELSE <<>>)
  \o (IF IssuesIn(issues, "maintainability") > 0
      THEN <<<<"I","m","p","r","o","v","e"," ">>
               \o NumberToString(IssuesIn(issues, "maintainability"))
               \o <<" ","m","a","i","n","t","a","i","n","a","b","i","l","i","t","y"," ","c",
                 "o","n","c","e","r","n","s">>>>
      ELSE <<>>)

\* Math.round of sum / 4 for a sum that is not negative
RoundQuarter(sum) == (sum + 2) \div 4

\* an analysis that lets the scores fall with every issue
QualityAssurance_analyzeQuality_Unclamped(components) ==
  LET Fall(locals, issue) ==
        CASE issue.category = "performance" ->
               [locals EXCEPT !.performance = @ - 5]
          [] issue.category = "accessibility" ->
               [locals EXCEPT !.accessibility = @ - 10]
          [] issue.category = "maintainability" ->
               [locals EXCEPT !.maintainability = @ - 3]
          [] OTHER -> locals
      Body(locals, component) ==
        ForEach(Fall, [locals EXCEPT !.issues = @ \o analyzeComponent(component)],
                analyzeComponent(component))
      l == ForEach(Body, QualityLocals, components)
  IN  [overallScore |-> (l.codeQuality + l.accessibility + l.performance
                           + l.maintainability + 2) \div 4,
       visualAccuracy |-> 85,
       codeQuality |-> l.codeQuality,
       accessibility |-> l.accessibility,
       performance |-> l.performance,
       recommendations |-> generateRecommendations(l.issues)]

\* QualityAssurance.analyzeQuality
QualityAssurance_analyzeQuality(components) ==
  LET l == ForEach(AssuranceComponentStep, QualityLocals, components)
  IN  [overallScore |-> RoundQuarter(l.codeQuality + l.accessibility
                                       + l.performance + l.maintainability),
       visualAccuracy |-> 85,
       codeQuality |-> Max(0, l.codeQuality),
       accessibility |-> Max(0, l.accessibility),
       performance |-> Max(0, l.performance),
       recommendations |-> generateRecommendations(l.issues)]

\* EnterpriseCodeGenerator.analyzeQuality, the switch on issue.category
EnterpriseScoreStep(locals, issue) ==
  CASE issue.category = "performance" ->
         [locals EXCEPT !.performance = @ - 5]
    [] issue.category = "accessibility" ->
         [locals EXCEPT !.accessibility = @ - 10]
    [] issue.category = "maintainability" ->
         [locals EXCEPT !.maintainability = @ - 3]
    [] OTHER -> locals

\* EnterpriseCodeGenerator.analyzeQuality, the body of components.forEach
EnterpriseComponentStep(locals, component) ==
  LET componentIssues == analyzeComponentQuality(component)
  IN  ForEach(EnterpriseScoreStep,
              [locals EXCEPT !.issues = @ \o componentIssues],
              componentIssues)

\* EnterpriseCodeGenerator.analyzeQuality
EnterpriseCodeGenerator_analyzeQuality(components, config) ==
  LET l == ForEach(EnterpriseComponentStep, QualityLocals, components)
  IN  [codeQuality |-> Max(0, l.codeQuality),
       accessibility |-> Max(0, l.accessibility),
       performance |-> Max(0, l.performance),
       maintainability |-> Max(0, l.maintainability),
       testCoverage |-> IF config.enableTesting THEN 85 ELSE 0,
       issues |-> l.issues]

\* the markup of the components handed to the analysis: a plain element, an
\* image that is not lazy, and a labelled element of more than 1000
\* characters
QaPlainJsx == <<"<","d","i","v"," ","/",">">>
QaImgJsx   == <<"<","i","m","g"," ","s","r","c","=","\"","u","\"",">">>
QaBigJsx   == <<"<","p"," ","a","r","i","a","-","l","a","b","e","l","=","\"","a","\"",
                ">">> \o Filler(1001)

\* a batch with the given number of components of each kind
QaBatch(plain, img, big) ==
  [i \in 1..(plain + img + big) |->
     [id |-> <<"c">> \o NumberToString(i),
      name |-> <<"C">> \o NumberToString(i),
      jsx |-> IF i <= plain THEN QaPlainJsx
              ELSE IF i <= plain + img THEN QaImgJsx
              ELSE QaBigJsx]]

\* none, one, the eleven with which a score loses more than 100, and many
QaCounts(max) == {0, 1, 11, max}

QaInit ==
  /\ qaConfig \in [enableTesting : BOOLEAN]
  /\ \E plain, img, big \in QaCounts(MaxQaCount) :
       qaInput = QaBatch(plain, img, big)
  /\ qaReports = [assurance |-> <<>>, enterprise |-> <<>>]

\* GenerationOrchestrator, validate step:
\* this.qualityAssurance.analyzeQuality(optimizedComponents)
QaAssuranceAnalyze ==
  /\ qaReports.assurance = <<>>
  /\ qaReports' = [qaReports EXCEPT
                     !.assurance = <<QualityAssurance_analyzeQuality(qaInput)>>]
  /\ UNCHANGED <<qaConfig, qaInput>>

\* EnterpriseCodeGenerator: this.analyzeQuality(optimizedComponents, designSystem)
QaEnterpriseAnalyze ==
  /\ qaReports.enterprise = <<>>
  /\ qaReports' = [qaReports EXCEPT
                     !.enterprise =
                       <<EnterpriseCodeGenerator_analyzeQuality(qaInput, qaConfig)>>]
  /\ UNCHANGED <<qaConfig, qaInput>>

Score(n) == n \in 0..100

\* C14: every score of the QualityReport analyzeQuality returns lies in
\* [0, 100], however many issues were recorded: overallScore, visualAccuracy,
\* codeQuality, accessibility and performance of QualityAssurance, and
\* codeQuality, accessibility, performance, maintainability and testCoverage
\* of EnterpriseCodeGenerator.
C14_QualityScoresInRange ==
  /\ \A i \in 1..Len(qaReports.assurance) :
       LET r == qaReports.assurance[i]
       IN  /\ Score(r.overallScore)
           /\ Score(r.visualAccuracy)
           /\ Score(r.codeQuality)
           /\ Score(r.accessibility)
           /\ Score(r.performance)
  /\ \A i \in 1..Len(qaReports.enterprise) :
       LET r == qaReports.enterprise[i]
       IN  /\ Score(r.codeQuality)
           /\ Score(r.accessibility)
           /\ Score(r.performance)
           /\ Score(r.maintainability)
           /\ Score(r.testCoverage)

\* both analyses have run on components with more than 50 issues, and scores
\* have reached the floor
C14_Witness ==
  /\ qaReports.assurance # <<>>
  /\ qaReports.enterprise # <<>>
  /\ Len(qaReports.enterprise[1].issues) >= MaxQaCount
  /\ qaReports.enterprise[1].maintainability = 0
  /\ qaReports.assurance[1].accessibility = 0
  /\ qaReports.assurance[1].performance = 0
  /\ Len(qaInput) > 50

----------------------------------------------------------------------------
(* Two generateEnterprise runs on one GenerationOrchestrator               *)
(* The closure variables of createPipeline and the locals of executePhase  *)
(* belong to a run; this.metrics and this.errorHandler are made once, in   *)
(* the constructor, and are used by every run of the orchestrator.         *)

RunIds == 1..2

NoClosure ==
  [analysisResult |-> Undefined, components |-> Undefined,
   optimizedComponents |-> Undefined]

\* a generateEnterprise(figmaData) call that has not been made yet
NotStarted(data) ==
  [figmaData |-> data, pc |-> "idle", phaseIdx |-> 0, phaseStart |-> 0,
   pipeline |-> NoClosure, thrown |-> NoError, outcome |-> Pending]

\* the files of the two runs differ, so that a value tells its run
RunFile(r) == IF r = 1 THEN "fileA" ELSE "fileB"

RunsInit ==
  /\ runs \in {[r \in RunIds |-> NotStarted([hasDocument |-> h[r], file |-> RunFile(r)])] :
                 h \in [RunIds -> BOOLEAN]}
  /\ runsNow = 0
  /\ runsMetrics = <<>>
  /\ runsErrors = <<>>

\* Date.now() advances while the runs that have started await an operation
\* (a continuation that is ready runs before any time passes)
RunsTick ==
  /\ runsNow < MaxRunsClock
  /\ \E r \in RunIds : runs[r].pc = "run"
  /\ \A r \in RunIds : runs[r].pc \in {"idle", "run", "done"}
  /\ runsNow' = runsNow + 1
  /\ UNCHANGED <<runs, runsMetrics, runsErrors>>

\* generateEnterprise(figmaData) up to the first executePhase
RunGenerateEnterprise(r) ==
  /\ runs[r].pc = "idle"
  /\ runs' = [runs EXCEPT ![r].pc = "start", ![r].phaseIdx = 1]
  /\ UNCHANGED <<runsNow, runsMetrics, runsErrors>>

\* executePhase: startTime = Date.now(), operation() is called and awaited
RunStartPhase(r) ==
  /\ runs[r].pc = "start"
  /\ runs' = [runs EXCEPT ![r].pc = "run", ![r].phaseStart = runsNow]
  /\ UNCHANGED <<runsNow, runsMetrics, runsErrors>>

\* executePhase: operation() resolved; this.metrics.recordPhase
RunPhaseCompletes(r) ==
  /\ runs[r].pc = "run"
  /\ LET run  == runs[r]
         res  == operation(run.phaseIdx, run.figmaData, ReactS, "none", run.pipeline)
         name == PhaseOrder[run.phaseIdx]
     IN  /\ ~res.threw
         /\ runsMetrics' = recordPhase(runsMetrics, name, runsNow - run.phaseStart, runsNow)
         /\ runs' = [runs EXCEPT ![r] =
              IF run.phaseIdx = NumPhases
              THEN [run EXCEPT !.pipeline = res.closure, !.pc = "done",
                               !.outcome = [kind |-> "resolved", failed |-> FALSE,
                                            value |-> res.value]]
              ELSE [run EXCEPT !.pipeline = res.closure, !.pc = "start",
                               !.phaseIdx = NextPhase(run.phaseIdx)]]
  /\ UNCHANGED <<runsNow, runsErrors>>

\* executePhase: operation() threw; this.metrics.recordPhaseError, rethrown
RunPhaseThrows(r) ==
  /\ runs[r].pc = "run"
  /\ LET run  == runs[r]
         res  == operation(run.phaseIdx, run.figmaData, ReactS, "none", run.pipeline)
         name == PhaseOrder[run.phaseIdx]
     IN  /\ res.threw
         /\ runsMetrics' = recordPhaseError(runsMetrics, name, runsNow - run.phaseStart,
                                            res.error, runsNow)
         /\ runs' = [runs EXCEPT ![r].pc = "catch", ![r].thrown = res.error]
  /\ UNCHANGED <<runsNow, runsErrors>>

\* generateEnterprise: catch (error) { return handleGenerationError(error) }
RunHandleGenerationError(r) ==
  /\ runs[r].pc = "catch"
  /\ LET handledError == processError(runs[r].thrown, runsNow)
     IN  /\ runsErrors' = Append(runsErrors, handledError)
         /\ runs' = [runs EXCEPT ![r].pc = "done",
                                 ![r].outcome =
                                   [kind |-> "resolved", failed |-> TRUE,
                                    value |-> createFallbackResult(handledError, runsNow)]]
  /\ UNCHANGED <<runsNow, runsMetrics>>

\* the names and outcomes of the phases recorded in a MetricsCollector
PhasesRecorded(phases) ==
  [i \in 1..Len(phases) |-> [name |-> phases[i].name, success |-> phases[i].success]]

\* what one generateEnterprise(data) call run alone on a new orchestrator
\* records and resolves to: the phases in order up to the first that throws
RECURSIVE AloneFrom(_, _, _, _)
AloneFrom(idx, data, closure, recorded) ==
  LET res  == operation(idx, data, ReactS, "none", closure)
      name == PhaseOrder[idx]
  IN  IF res.threw
      THEN [phases |-> Append(recorded, [name |-> name, success |-> FALSE]),
            failed |-> TRUE, value |-> <<>>]
      ELSE IF idx = NumPhases
      THEN [phases |-> Append(recorded, [name |-> name, success |-> TRUE]),
            failed |-> FALSE, value |-> res.value]
      ELSE AloneFrom(NextPhase(idx), data, res.closure,
                     Append(recorded, [name |-> name, success |-> TRUE]))

RunAlone(data) == AloneFrom(1, data, NoClosure, <<>>)

\* C17: two interleaved generateEnterprise runs share no mutable state: when
\* a run has resolved, the phase metrics recorded are those of that run and no
\* others (the phases the run records when it runs alone), and the result it
\* resolved to is the result of running it alone.
C17_RunsShareNothing ==
  \A r \in RunIds :
    runs[r].pc = "done" =>
      /\ PhasesRecorded(runsMetrics) = RunAlone(runs[r].figmaData).phases
      /\ runs[r].outcome.failed = RunAlone(runs[r].figmaData).failed
      /\ ~runs[r].outcome.failed =>
           runs[r].outcome.value = RunAlone(runs[r].figmaData).value

\* the part of C17 the closures of createPipeline do keep: a run that has
\* resolved without failure resolved to the result of running it alone
RunsResultsAsAlone ==
  \A r \in RunIds :
    (runs[r].pc = "done" /\ ~runs[r].outcome.failed) =>
        runs[r].outcome.value = RunAlone(runs[r].figmaData).value

----------------------------------------------------------------------------
(* ComponentAnalyzer: candidate components and complexity *)

\* a FigmaNode, as far as the analyzer reads it; a node without children has
\* the empty list (countTotalNodes adds 0 for both)
AnNode(id, type, children) == [id |-> id, type |-> type, children |-> children]

\* ComponentAnalyzer.findComponents
RECURSIVE findComponents(_)
findComponents(node) ==
  (IF node.type = "COMPONENT" \/ node.type = "FRAME" THEN <<node>> ELSE <<>>)
    \o ConcatAll([i \in 1..Len(node.children) |-> findComponents(node.children[i])])

\* ComponentAnalyzer.countTotalNodes: the reduce, taken half by half
RECURSIVE countTotalNodes(_)
countTotalNodes(nodes) ==
  IF nodes = <<>> THEN 0
  ELSE IF Len(nodes) = 1
  THEN 1 + (IF nodes[1].children # <<>> THEN countTotalNodes(nodes[1].children) ELSE 0)
  ELSE LET m == Len(nodes) \div 2
       IN  countTotalNodes(SubSeq(nodes, 1, m))
             + countTotalNodes(SubSeq(nodes, m + 1, Len(nodes)))

\* the thresholds of analyzeComplexity
Classify(totalNodes) ==
  IF totalNodes < 50 THEN "simple"
  ELSE IF totalNodes < 200 THEN "medium"
  ELSE "complex"

\* ComponentAnalyzer.analyzeComplexity
analyzeComplexity(components) == Classify(countTotalNodes(components))

complexityMultiplier(complexity) ==
  CASE complexity = "simple"  -> 1
    [] complexity = "medium"  -> 2
    [] complexity = "complex" -> 4

\* ComponentAnalyzer.estimateGenerationTime
estimateGenerationTime(components, complexity) ==
  Len(components) * 100 * complexityMultiplier(complexity)

\* ComponentAnalyzer.analyzeDesignSystem (the design tokens are constants)
ComponentAnalyzer_analyzeDesignSystem(document) ==
  LET components == findComponents(document)
      complexity == analyzeComplexity(components)
  IN  [done |-> TRUE, componentCount |-> Len(components), complexity |-> complexity,
       estimatedTime |-> estimateGenerationTime(components, complexity)]

NotAnalyzed ==
  [done |-> FALSE, componentCount |-> 0, complexity |-> "simple", estimatedTime |-> 0]

ContainerTypes == {"FRAME", "COMPONENT", "GROUP"}

\* numbers of TEXT leaves of the innermost container: around the thresholds
LeafCounts == {0, 1, 30, 48, 49, 198, 199}

\* k TEXT leaves with the ids from + 1 .. from + k
Leaves(from, k) == [i \in 1..k |-> AnNode(from + i, "TEXT", <<>>)]

\* depth containers of type inner nested in each other, the innermost holding
\* the leaves; level is the id of the outermost of them
RECURSIVE Nested(_, _, _, _)
Nested(level, depth, inner, leaves) ==
  IF depth = 0 THEN leaves
  ELSE <<AnNode(level, inner, Nested(level + 1, depth - 1, inner, leaves))>>

\* the documents analyzed: under the DOCUMENT node one container of type outer,
\* in it a nest of containers of type inner, in the innermost the leaves
AnDocuments(maxDepth) ==
  {AnNode(0, "DOCUMENT",
          IF depth = 0 THEN Leaves(maxDepth + 1, k)
          ELSE <<AnNode(1, outer, Nested(2, depth - 1, inner, Leaves(maxDepth + 1, k)))>>) :
     depth \in 0..maxDepth, outer \in ContainerTypes, inner \in ContainerTypes,
     k \in LeafCounts}

AnInit ==
  /\ anDocument \in AnDocuments(MaxNesting)
  /\ anResult = NotAnalyzed

\* analyzer.analyzeDesignSystem(figmaData)
AnAnalyzeDesignSystem ==
  /\ ~anResult.done
  /\ anResult' = ComponentAnalyzer_analyzeDesignSystem(anDocument)
  /\ UNCHANGED anDocument

\* the ids of a node and its descendants
RECURSIVE NodeIds(_)
NodeIds(node) ==
  {node.id} \cup UNION {NodeIds(node.children[i]) : i \in 1..Len(node.children)}

\* the candidate set: the COMPONENT and FRAME nodes of the tree together with
\* their descendants
RECURSIVE CandidateSet(_)
CandidateSet(node) ==
  IF node.type = "COMPONENT" \/ node.type = "FRAME" THEN NodeIds(node)
  ELSE UNION {CandidateSet(node.children[i]) : i \in 1..Len(node.children)}

\* C19: the complexity is simple, medium or complex as the number N of nodes
\* of the candidate set, each node counted once, is below 50, below 200 or not.
C19_ComplexityOfCandidateCount ==
  anResult.done =>
    anResult.complexity = Classify(Cardinality(CandidateSet(anDocument)))

\* the complexity is the same whenever no candidate lies inside another
ComplexityOfFlatCandidates ==
  (anResult.done /\ Len(findComponents(anDocument)) <= 1) =>
    anResult.complexity = Classify(Cardinality(CandidateSet(anDocument)))

----------------------------------------------------------------------------
(* The orchestrator pipeline and reusability extraction *)

\* whether a value was produced, at some step, by
\* ComponentLibraryManager.optimizeForReusability
RECURSIVE ThroughReusability(_)
ThroughReusability(term) ==
  \/ term.op = "optimizeForReusability"
  \/ \E i \in 1..Len(term.args) : ThroughReusability(term.args[i])

\* the components handed to the operation whose result is term
ComponentsRead(term) == term.args[1]

\* C20: in every run documentation and test generation read component text
\* that reusability extraction has rewritten: extraction has run after
\* generation and before the Documentation and Testing phases.
C20_ReusabilityBeforeDocsAndTests ==
  \A i \in {5, 6} :
    phaseResults[i] # Undefined =>
      /\ PhaseOrder[i] \in {"Documentation", "Testing"}
      /\ ThroughReusability(ComponentsRead(phaseResults[i]))

\* what the pipeline does give documentation and tests: the components
\* OptimizationEngine.optimizeComponents returned for the generated ones
DocsAndTestsReadOptimized ==
  \A i \in {5, 6} :
    phaseResults[i] # Undefined =>
      ComponentsRead(phaseResults[i]) =
        Term("optimizeComponents", <<phaseResults[2]>>)

----------------------------------------------------------------------------
(* The orchestrator pipeline: how often the collaborators are called *)

\* the calls of op that have returned
CallsTo(op) == SelectSeq(callLog, LAMBDA c : c.op = op)

OwnPhase(op) ==
  CASE op = "analyzeQuality"        -> "Quality Validation"
    [] op = "generateDocumentation" -> "Documentation"
    [] op = "generateTests"         -> "Testing"

\* C21: in a successful run quality analysis, documentation generation and
\* test generation are each called exactly once, in their own phase and not
\* together with another call; Packaging does not call them again.
C21_OncePerRunInOwnPhase ==
  (outcome.kind = "resolved" /\ ~outcome.failed) =>
    \A op \in {"analyzeQuality", "generateDocumentation", "generateTests"} :
      /\ Len(CallsTo(op)) = 1
      /\ CallsTo(op)[1].phase = OwnPhase(op)
      /\ ~CallsTo(op)[1].together

\* what the pipeline does: each of the three is called once in its own phase
\* and once more in Packaging, the three Packaging calls in one Promise.all
CalledAgainInPackaging ==
  (outcome.kind = "resolved" /\ ~outcome.failed) =>
    \A op \in {"analyzeQuality", "generateDocumentation", "generateTests"} :
      /\ Len(CallsTo(op)) = 2
      /\ CallsTo(op)[1] = [phase |-> OwnPhase(op), op |-> op, together |-> FALSE]
      /\ CallsTo(op)[2] = [phase |-> "Packaging", op |-> op, together |-> TRUE]

----------------------------------------------------------------------------
(* Tree shaking: PerformanceOptimizer and OptimizationEngine *)

\* component.jsx.match(/className="([^"]+)"/g): the matches from left to
\* right, each running to the first closing quote
RECURSIVE ClassMatches(_)
ClassMatches(jsx) ==
  LET n     == Len(ClassNameS)
      start == First({i \in 1..(Len(jsx) - n - 1) :
                        /\ SubSeq(jsx, i, i + n - 1) = ClassNameS
                        /\ jsx[i + n] # "\""
                        /\ \E j \in (i + n + 1)..Len(jsx) : jsx[j] = "\""})
      close == First({j \in (start + n + 1)..Len(jsx) : jsx[j] = "\""})
  IN  IF start = 0 THEN <<>>
      ELSE <<SubSeq(jsx, start, close)>> \o ClassMatches(Drop(jsx, close))

\* match.replace('className="', '').replace('"', '').split(' ')
ClassesOfMatch(match) ==
  split(SubSeq(match, Len(ClassNameS) + 1, Len(match) - 1), " ")

\* PerformanceOptimizer.analyzeComponentUsage: the selectors it adds to
\* usedSelectors (usedVariables is filled and never read)
analyzeComponentUsage(component) ==
  LET matches == ClassMatches(component.jsx)
  IN  UNION {{ClassesOfMatch(matches[m])[k] :
                k \in 1..Len(ClassesOfMatch(matches[m]))} : m \in 1..Len(matches)}

\* selector.split(/[\s>+~]/)
SplitSelector(selector) ==
  LET cuts == SelectSeq(Positions(selector),
                        LAMBDA i : IsSpace(selector[i]) \/ selector[i] \in {">", "+", "~"})
  IN  [k \in 1..(Len(cuts) + 1) |->
         SubSeq(selector,
                IF k = 1 THEN 1 ELSE cuts[k - 1] + 1,
                IF k = Len(cuts) + 1 THEN Len(selector) ELSE cuts[k] - 1)]

\* part.replace(/^\./, '').replace(/:.*$/, '')
ClassOfPart(part) ==
  LET bare  == IF part # <<>> /\ part[1] = "." THEN Tail(part) ELSE part
      colon == First({i \in 1..Len(bare) : bare[i] = ":"})
  IN  IF colon = 0 THEN bare ELSE SubSeq(bare, 1, colon - 1)

\* an isSelectorUsed that asks for every part of the selector to be used
isSelectorUsed_Every(selector, usedSelectors) ==
  LET parts == SplitSelector(selector)
  IN  \A k \in 1..Len(parts) : ClassOfPart(trim(parts[k])) \in usedSelectors

\* PerformanceOptimizer.isSelectorUsed
isSelectorUsed(selector, usedSelectors) ==
  LET parts == SplitSelector(selector)
  IN  \E k \in 1..Len(parts) : ClassOfPart(trim(parts[k])) \in usedSelectors

\* PerformanceOptimizer.removeUnusedCSS
PerformanceOptimizer_removeUnusedCSS(css, usedSelectors) ==
  LET rules == SelectSeq(split(css, "}"), LAMBDA rule : trim(rule) # <<>>)
      kept  == SelectSeq(rules,
                 LAMBDA rule : isSelectorUsed(trim(split(rule, "{")[1]), usedSelectors))
  IN  join(kept, <<"}", "\n">>) \o (IF Len(rules) > 0 THEN <<"}">> ELSE <<>>)

\* PerformanceOptimizer.treeShakeUnusedCode
PerformanceOptimizer_treeShakeUnusedCode(components, config) ==
  IF ~config.enableTreeShaking THEN components
  ELSE LET usedSelectors ==
             UNION {analyzeComponentUsage(components[i]) : i \in 1..Len(components)}
       IN  [i \in 1..Len(components) |->
              [components[i] EXCEPT
                 !.css = PerformanceOptimizer_removeUnusedCSS(@, usedSelectors)]]

JSX_AB   == <<"<","i"," ","c","l","a","s","s","N","a","m","e","=","\"","a"," ","b",
    "\"",">">>
JSX_C    == <<"<","p"," ","c","l","a","s","s","N","a","m","e","=","\"","c","\"",">">>
JSX_NONE == <<"<","p",">">>
CSS_A    == <<".","a"," ","{"," ","x",":"," ","1",";"," ","}">>
CSS_B_D  == <<".","b",":","h","o","v","e","r"," ","{"," ","x",":"," ","1",";"," ","}",
    "\n",".","d"," ","{"," ","x",":"," ","1",";"," ","}">>

ShakeJsxPool ==
  {JSX_AB, JSX_C, JSX_NONE}

ShakeCssPool ==
  {<<>>, CSS_A, CSS_B_D}

\* batches of generated components; ids are the positions in the batch
ShakeBatches(maxLen) ==
  UNION {{[i \in 1..n |-> [id |-> i, jsx |-> t[i].jsx, css |-> t[i].css]] :
            t \in [1..n -> [jsx : ShakeJsxPool, css : ShakeCssPool]]} : n \in 0..maxLen}

ShakeInit ==
  /\ shakeConfig \in [enableTreeShaking : BOOLEAN]
  /\ shakeInput \in ShakeBatches(MaxShakeBatch)
  /\ shakeOutput = <<>>
  /\ shakeBy = "none"

\* new PerformanceOptimizer(config).treeShakeUnusedCode(components)
ShakePerformanceOptimizer ==
  /\ shakeBy = "none"
  /\ shakeOutput' = PerformanceOptimizer_treeShakeUnusedCode(shakeInput, shakeConfig)
  /\ shakeBy' = "PerformanceOptimizer"
  /\ UNCHANGED <<shakeConfig, shakeInput>>

\* new OptimizationEngine(config).optimizeComponents(components), tree shaking
\* being the only pass that may be enabled
ShakeOptimizationEngine ==
  /\ shakeBy = "none"
  /\ shakeOutput' =
       optimizeComponents(shakeInput,
         [enableComponentDeduplication |-> FALSE,
          enableTreeShaking |-> shakeConfig.enableTreeShaking,
          enableCSSMinification |-> FALSE, enableAssetOptimization |-> FALSE])
  /\ shakeBy' = "OptimizationEngine"
  /\ UNCHANGED <<shakeConfig, shakeInput>>

\* the rules of a stylesheet
RulesOf(css) ==
  LET rules == SelectSeq(split(css, "}"), LAMBDA rule : trim(rule) # <<>>)
  IN  {trim(rules[k]) : k \in 1..Len(rules)}

\* the base class of a rule with a one-class selector: .name or .name:pseudo
BaseClass(rule) == ClassOfPart(trim(split(rule, "{")[1]))

\* the classes in the class attributes of the whole batch
ClassesOfBatch(components) ==
  UNION {analyzeComponentUsage(components[i]) : i \in 1..Len(components)}

RulesDecidedOnBatch ==
  \A i \in 1..Len(shakeInput) :
    \A rule \in RulesOf(shakeInput[i].css) :
      rule \in RulesOf(shakeOutput[i].css)
        <=> BaseClass(rule) \in ClassesOfBatch(shakeInput)

\* C23: tree shaking decides on the class usage of the whole batch: a rule of
\* a component's css is in that component's output css when its base class is
\* in a class attribute of some component of the batch, and is not when the
\* class is in none.
C23_TreeShakingOnBatchUnion ==
  (shakeBy # "none" /\ shakeConfig.enableTreeShaking) => RulesDecidedOnBatch

\* the part of C23 that holds: PerformanceOptimizer.treeShakeUnusedCode
\* decides on the union of the batch
PerformanceOptimizerOnBatchUnion ==
  (shakeBy = "PerformanceOptimizer" /\ shakeConfig.enableTreeShaking)
    => RulesDecidedOnBatch

----------------------------------------------------------------------------
(* Stylesheets: CSSArchitectManager and generateEnterpriseCSS               *)
(* The declarations of the layers (stylesToCSS of the node's styles, the   *)
(* custom properties) hold no at-rule and are left out of the text.        *)

\* CSSArchitectManager.generateMediaQueries
generateMediaQueries(blockName) ==
  <<"\n","/","*"," ","R","e","s","p","o","n","s","i","v","e"," ","S","t",
       "y","l","e","s"," ","*","/","\n","@","m","e","d","i","a"," ","(","m",
       "i","n","-","w","i","d","t","h",":"," ","7","6","8","p","x",")"," ","{",
       "\n"," "," ",".">>
  \o blockName
  \o <<" ","{","\n"," "," "," "," ","/","*"," ","T","a","b","l","e","t"," ",
       "s","t","y","l","e","s"," ","*","/","\n"," "," ","}","\n","}","\n","\n",
       "@","m","e","d","i","a"," ","(","m","i","n","-","w","i","d","t","h",":",
       " ","1","0","2","4","p","x",")"," ","{","\n"," "," ",".">>
  \o blockName
  \o <<" ","{","\n"," "," "," "," ","/","*"," ","D","e","s","k","t","o","p",
       " ","s","t","y","l","e","s"," ","*","/","\n"," "," ","}","\n","}","\n">>

\* CSSArchitectManager.generateContainerQueries
generateContainerQueries ==
  <<"\n","/","*"," ","C","o","n","t","a","i","n","e","r"," ","Q","u","e",
       "r","i","e","s"," ","*","/","\n","@","c","o","n","t","a","i","n","e",
       "r"," ","(","m","i","n","-","w","i","d","t","h",":"," ","3","0","0","p",
       "x",")"," ","{","\n"," "," ","/","*"," ","S","m","a","l","l"," ","c",
       "o","n","t","a","i","n","e","r"," ","s","t","y","l","e","s"," ","*","/",
       "\n","}","\n","\n","@","c","o","n","t","a","i","n","e","r"," ","(","m",
       "i","n","-","w","i","d","t","h",":"," ","5","0","0","p","x",")"," ","{",
       "\n"," "," ","/","*"," ","M","e","d","i","u","m"," ","c","o","n","t",
       "a","i","n","e","r"," ","s","t","y","l","e","s"," ","*","/","\n","}",
       "\n","\n","@","c","o","n","t","a","i","n","e","r"," ","(","m","i","n",
       "-","w","i","d","t","h",":"," ","7","0","0","p","x",")"," ","{","\n",
       " "," ","/","*"," ","L","a","r","g","e"," ","c","o","n","t","a","i","n",
       "e","r"," ","s","t","y","l","e","s"," ","*","/","\n","}","\n">>

\* CSSArchitectManager.generateResponsiveStyles
generateResponsiveStyles(config, blockName) ==
  IF ~config.enableContainerQueries THEN generateMediaQueries(blockName)
  ELSE generateContainerQueries

\* CSSArchitectManager.generateCSSHeader (enableLayerCascade has its default)
generateCSSHeader(architectureName) ==
  <<"/","*"," ">> \o architectureName
    \o <<" ","*","/","\n","@","l","a","y","e","r"," ","r","e","s","e","t",",",
      " ","b","a","s","e",","," ","l","a","y","o","u","t",","," ","c","o","m",
      "p","o","n","e","n","t","s",","," ","u","t","i","l","i","t","i","e","s",
      ","," ","o","v","e","r","r","i","d","e","s",";","\n","\n">>

\* CSSArchitectManager.generateBlockStyles
generateBlockStyles(blockName) ==
  <<"\n","/","*"," ","B","l","o","c","k",":"," ">>
  \o blockName
  \o <<" ","*","/","\n",".">>
  \o blockName
  \o <<" ","{","\n","}","\n">>

\* CSSArchitectManager.generateModifierStyles for the modifier disabled
generateModifierStyles(blockName) ==
  <<"\n","/","*"," ","M","o","d","i","f","i","e","r",":"," ">>
  \o blockName
  \o <<"-","-","d","i","s","a","b","l","e","d"," ","*","/","\n",".">>
  \o blockName
  \o <<"-","-","d","i","s","a","b","l","e","d"," ","{","\n","}","\n">>

\* CSSArchitectManager.generateBEMCSS, for a node without children
generateBEMCSS(config, componentName) ==
  LET blockName == LowerCase(componentName)
  IN  generateCSSHeader(<<"B","E","M"," ","A","r","c","h","i","t","e","c","t","u","r","e">>)
        \o generateBlockStyles(blockName)
        \o generateModifierStyles(blockName)
        \o generateResponsiveStyles(config, blockName)

\* generateSMACSBase, Layout, Module, State and Theme
SMACSSRules(className) ==
  <<"\n","/","*"," ","B","a","s","e"," ","R","u","l","e","s"," ","*","/",
       "\n","\n","/","*"," ","L","a","y","o","u","t"," ","R","u","l","e","s",
       " ","*","/","\n",".","l","-">>
  \o className
  \o <<" ","{","\n","}","\n","\n","/","*"," ","M","o","d","u","l","e"," ","R",
       "u","l","e","s"," ","*","/","\n",".">>
  \o className
  \o <<" ","{","\n","}","\n","\n","/","*"," ","S","t","a","t","e"," ","R","u",
       "l","e","s"," ","*","/","\n",".","i","s","-","h","i","d","d","e","n",
       " ","{","\n"," "," ","d","i","s","p","l","a","y",":"," ","n","o","n",
       "e",";","\n","}","\n","\n","/","*"," ","T","h","e","m","e"," ","R","u",
       "l","e","s"," ","*","/","\n",".","t","h","e","m","e","-","d","a","r",
       "k"," ",".">>
  \o className
  \o <<" ","{","\n","}","\n">>

\* CSSArchitectManager.generateSMACSS
generateSMACSS(config, componentName) ==
  generateCSSHeader(<<"S","M","A","C","S","S"," ","A","r","c","h","i","t","e","c","t","u","r",
    "e">>) \o SMACSSRules(LowerCase(componentName))

\* generateITCSSSettings, Tools, Generic, Elements, Objects, Components, Utilities
ITCSSLayers(className) ==
  <<"\n","/","*"," ","S","e","t","t","i","n","g","s"," ","L","a","y","e",
       "r"," ","-"," ","C","S","S"," ","C","u","s","t","o","m"," ","P","r","o",
       "p","e","r","t","i","e","s"," ","*","/","\n",":","r","o","o","t"," ",
       "{","\n","}","\n","\n","/","*"," ","T","o","o","l","s"," ","L","a","y",
       "e","r"," ","-"," ","M","i","x","i","n","s"," ","a","n","d"," ","F","u",
       "n","c","t","i","o","n","s"," ","*","/","\n","\n","/","*"," ","G","e",
       "n","e","r","i","c"," ","L","a","y","e","r"," ","-"," ","N","o","r","m",
       "a","l","i","z","e","/","R","e","s","e","t"," ","*","/","\n","\n","/",
       "*"," ","E","l","e","m","e","n","t","s"," ","L","a","y","e","r"," ","-",
       " ","B","a","s","e"," ","E","l","e","m","e","n","t"," ","S","t","y","l",
       "e","s"," ","*","/","\n","\n","/","*"," ","O","b","j","e","c","t","s",
       " ","L","a","y","e","r"," ","-"," ","L","a","y","o","u","t"," ","P","a",
       "t","t","e","r","n","s"," ","*","/","\n",".","o","-">>
  \o className
  \o <<" ","{","\n","}","\n","\n","/","*"," ","C","o","m","p","o","n","e","n",
       "t","s"," ","L","a","y","e","r"," ","-"," ","U","I"," ","C","o","m","p",
       "o","n","e","n","t","s"," ","*","/","\n",".","c","-">>
  \o className
  \o <<" ","{","\n","}","\n","\n","/","*"," ","U","t","i","l","i","t","i","e",
       "s"," ","L","a","y","e","r"," ","-"," ","H","e","l","p","e","r"," ","C",
       "l","a","s","s","e","s"," ","*","/","\n",".","u","-","h","i","d","d",
       "e","n"," ","{","\n"," "," ","d","i","s","p","l","a","y",":"," ","n",
       "o","n","e"," ","!","i","m","p","o","r","t","a","n","t",";","\n","}",
       "\n">>

\* CSSArchitectManager.generateITCSS
generateITCSS(config, componentName) ==
  generateCSSHeader(<<"I","T","C","S","S"," ","A","r","c","h","i","t","e","c","t","u","r","e">>) \o ITCSSLayers(LowerCase(componentName))

\* CSSArchitectManager.generateCubeComposition
generateCubeComposition(config, componentName) ==
  <<"\n","/","*"," ","C","o","m","p","o","s","i","t","i","o","n"," ","L",
      "a","y","e","r"," ","-"," ","L","a","y","o","u","t"," ","a","n","d"," ",
      "S","t","r","u","c","t","u","r","e"," ","*","/","\n",".">> \o LowerCase(componentName) \o <<" ","{","\n","\n">>
    \o (IF config.enableContainerQueries THEN generateContainerQueries ELSE <<>>)
    \o <<"\n","}","\n">>

\* generateCubeUtilities, generateCubeBlock and generateCubeExceptions
CubeLayers(className) ==
  <<"\n","/","*"," ","U","t","i","l","i","t","i","e","s"," ","L","a","y",
       "e","r"," ","-"," ","S","i","n","g","l","e"," ","P","u","r","p","o","s",
       "e"," ","C","l","a","s","s","e","s"," ","*","/","\n","\n","/","*"," ",
       "B","l","o","c","k"," ","L","a","y","e","r"," ","-"," ","C","o","m","p",
       "o","n","e","n","t"," ","S","t","y","l","e","s"," ","*","/","\n",".">>
  \o className
  \o <<" ","{","\n","}","\n","\n","/","*"," ","E","x","c","e","p","t","i","o",
       "n"," ","L","a","y","e","r"," ","-"," ","C","o","n","t","e","x","t","-",
       "S","p","e","c","i","f","i","c"," ","O","v","e","r","r","i","d","e","s",
       " ","*","/","\n",".">>
  \o className
  \o <<"[","d","a","t","a","-","s","t","a","t","e","=","\"","l","o","a","d",
       "i","n","g","\"","]"," ","{","\n","}","\n">>

\* CSSArchitectManager.generateCubeCSS
generateCubeCSS(config, componentName) ==
  generateCSSHeader(<<"C","U","B","E"," ","C","S","S"," ","A","r","c","h","i","t","e","c","t",
    "u","r","e">>)
    \o generateCubeComposition(config, componentName)
    \o CubeLayers(LowerCase(componentName))

\* CSSArchitectManager.generateArchitecturalCSS
generateArchitecturalCSS(config, componentName) ==
  CASE config.cssArchitecture = "bem"      -> generateBEMCSS(config, componentName)
    [] config.cssArchitecture = "smacss"   -> generateSMACSS(config, componentName)
    [] config.cssArchitecture = "itcss"    -> generateITCSS(config, componentName)
    [] config.cssArchitecture = "cube-css" -> generateCubeCSS(config, componentName)
    [] OTHER                               -> generateBEMCSS(config, componentName)

\* EnterpriseCodeGenerator.generateResponsiveCSS
EnterpriseCodeGenerator_generateResponsiveCSS ==
  <<"\n","@","m","e","d","i","a"," ","(","m","a","x","-","w","i","d","t",
       "h",":"," ","7","6","8","p","x",")"," ","{","\n"," "," ",".","c","o",
       "m","p","o","n","e","n","t"," ","{"," ","p","a","d","d","i","n","g",":",
       " ","1","r","e","m",";"," ","}","\n","}","\n","@","m","e","d","i","a",
       " ","(","m","i","n","-","w","i","d","t","h",":"," ","1","0","2","4","p",
       "x",")"," ","{","\n"," "," ",".","c","o","m","p","o","n","e","n","t",
       " ","{"," ","p","a","d","d","i","n","g",":"," ","2","r","e","m",";"," ",
       "}","\n","}">>

\* EnterpriseCodeGenerator.generateThemeCSS
EnterpriseCodeGenerator_generateThemeCSS ==
  <<"\n",".","c","o","m","p","o","n","e","n","t"," ","{","\n"," "," ","c",
       "o","l","o","r",":"," ","v","a","r","(","-","-","t","e","x","t","-","p",
       "r","i","m","a","r","y",")",";","\n"," "," ","b","a","c","k","g","r",
       "o","u","n","d",":"," ","v","a","r","(","-","-","b","g","-","p","r","i",
       "m","a","r","y",")",";","\n","}","\n","[","d","a","t","a","-","t","h",
       "e","m","e","=","\"","d","a","r","k","\"","]"," ",".","c","o","m","p",
       "o","n","e","n","t"," ","{","\n"," "," ","c","o","l","o","r",":"," ",
       "v","a","r","(","-","-","t","e","x","t","-","p","r","i","m","a","r","y",
       "-","d","a","r","k",")",";","\n"," "," ","b","a","c","k","g","r","o",
       "u","n","d",":"," ","v","a","r","(","-","-","b","g","-","p","r","i","m",
       "a","r","y","-","d","a","r","k",")",";","\n","}">>

\* EnterpriseCodeGenerator.generateAnimationCSS
EnterpriseCodeGenerator_generateAnimationCSS ==
  <<"\n",".","c","o","m","p","o","n","e","n","t"," ","{","\n"," "," ","t",
       "r","a","n","s","i","t","i","o","n",":"," ","a","l","l"," ","0",".","3",
       "s"," ","e","a","s","e",";","\n","}","\n",".","c","o","m","p","o","n",
       "e","n","t",":","h","o","v","e","r"," ","{","\n"," "," ","t","r","a",
       "n","s","f","o","r","m",":"," ","t","r","a","n","s","l","a","t","e","Y",
       "(","-","2","p","x",")",";","\n","}">>

\* new CSSArchitectManager(config.cssArchitecture): the constructor is given
\* no second argument, so every flag of the manager has its default
ArchitectOfGenerator(config) ==
  [cssArchitecture |-> config.cssArchitecture, enableContainerQueries |-> TRUE]

\* EnterpriseCodeGenerator.generateEnterpriseCSS
generateEnterpriseCSS(config, componentName) ==
  trim(generateArchitecturalCSS(ArchitectOfGenerator(config), componentName)
       \o <<"\n", "\n">> \o EnterpriseCodeGenerator_generateResponsiveCSS
       \o <<"\n", "\n">>
       \o (IF config.enableThemeSupport THEN EnterpriseCodeGenerator_generateThemeCSS
           ELSE <<>>)
       \o <<"\n", "\n">> \o EnterpriseCodeGenerator_generateAnimationCSS)

NoStylesheet == [by |-> "none", enableContainerQueries |-> FALSE, css |-> <<>>]

CssArchitectures == {"bem", "smacss", "itcss", "cube-css"}

CssNames == {<<"C">>, <<"B", "t", "n">>, <<"N", "a", "v", "B", "a", "r">>, <<"x", "1">>}

CssInit ==
  /\ cssConfig \in [cssArchitecture : CssArchitectures, enableThemeSupport : BOOLEAN,
                    enableContainerQueries : BOOLEAN]
  /\ cssName \in CssNames
  /\ cssOut = NoStylesheet

\* new CSSArchitectManager(architecture, {enableContainerQueries})
\*   .generateArchitecturalCSS(node, componentName)
CssArchitectural ==
  /\ cssOut.by = "none"
  /\ cssOut' = [by |-> "CSSArchitectManager",
                enableContainerQueries |-> cssConfig.enableContainerQueries,
                css |-> generateArchitecturalCSS(cssConfig, cssName)]
  /\ UNCHANGED <<cssConfig, cssName>>

\* EnterpriseCodeGenerator.generateEnterpriseCSS(node, componentName): the
\* stylesheet of a generated component
CssEnterprise ==
  /\ cssOut.by = "none"
  /\ cssOut' = [by |-> "EnterpriseCodeGenerator",
                enableContainerQueries |->
                  ArchitectOfGenerator(cssConfig).enableContainerQueries,
                css |-> generateEnterpriseCSS(cssConfig, cssName)]
  /\ UNCHANGED <<cssConfig, cssName>>

HasMediaQueries(css) == includes(css, <<"@", "m", "e", "d", "i", "a">>)

HasContainerQueries(css) ==
  includes(css, <<"@", "c", "o", "n", "t", "a", "i", "n", "e", "r">>)

\* C24: the stylesheet emitted for a component holds container queries when
\* enableContainerQueries is set and media queries when it is not, and never
\* both kinds, for every CSS methodology.
C24_MediaOrContainerQueries ==
  cssOut.by = "EnterpriseCodeGenerator" =>
    /\ ~(HasMediaQueries(cssOut.css) /\ HasContainerQueries(cssOut.css))
    /\ HasContainerQueries(cssOut.css) <=> cssOut.enableContainerQueries
    /\ HasMediaQueries(cssOut.css) <=> ~cssOut.enableContainerQueries

\* the text of the CSSArchitectManager alone never holds both kinds
ArchitectNeverBoth ==
  cssOut.by = "CSSArchitectManager" =>
    ~(HasMediaQueries(cssOut.css) /\ HasContainerQueries(cssOut.css))

\* the ids of the nodes of a document
RECURSIVE IdsOfNodes(_)
IdsOfNodes(node) ==
  {node.id} \cup UNION {IdsOfNodes(node.children[i]) : i \in 1..Len(node.children)}

DistinctIds(components) ==
  \A i, j \in 1..Len(components) : i # j => components[i].id # components[j].id

\* C26: in the output of generateComponents every component carries the id
\* of a node of the document and no two components carry the same id,
\* whatever the components map and the FRAME nodes are.
C26_OneComponentPerNode ==
  \A r \in 1..2 :
    rxRuns[r].done =>
      /\ \A i \in 1..Len(rxRuns[r].components) :
           rxRuns[r].components[i].id \in IdsOfNodes(rxDocument)
      /\ DistinctIds(rxRuns[r].components)

\* with an empty components map the layout components of the frames carry
\* pairwise different ids, those of their frames
FramesAloneOnePerNode ==
  \A r \in 1..2 :
    (rxRuns[r].done /\ rxComponents = <<>>) =>
      /\ DistinctIds(rxRuns[r].components)
      /\ [i \in 1..Len(rxRuns[r].components) |-> rxRuns[r].components[i].id]
           = [i \in 1..Len(findFrames(rxDocument)) |-> findFrames(rxDocument)[i].id]

\* component i of the batch came back importing a base component
Rewritten(i) == libOutput[i].metadata.extendsComponent # <<>>

\* the name of the base component created from the group with this pattern
BaseNameOf(pattern) == BaseS \o libInput[First(LibMembers(pattern))].name

\* C27: a component is rewritten to import a base component only if it
\* belongs to the fingerprint group, of at least 3 members, that base was
\* created from; a component of a group with fewer than 3 members comes back
\* with its jsx and css unchanged.
C27_ImportsOnlyOwnGroupBase ==
  libDone =>
    \A i \in 1..Len(libInput) :
      LET pattern == extractPattern(libInput[i])
      IN  /\ Rewritten(i) =>
                /\ Cardinality(LibMembers(pattern)) >= 3
                /\ libOutput[i].metadata.extendsComponent = BaseNameOf(pattern)
          /\ Cardinality(LibMembers(pattern)) < 3 =>
                /\ libOutput[i].jsx = libInput[i].jsx
                /\ libOutput[i].css = libInput[i].css

\* a rewritten component imports a base component of the output, one whose
\* id includes the component's pattern, and a component that is not
\* rewritten keeps its text
RewrittenImportsABaseOfTheOutput ==
  libDone =>
    \A i \in 1..Len(libInput) :
      IF Rewritten(i)
      THEN \E k \in 1..Len(libOutput) :
             /\ libOutput[k].metadata.isBaseComponent
             /\ libOutput[k].name = libOutput[i].metadata.extendsComponent
             /\ includes(libOutput[k].id, extractPattern(libInput[i]))
      ELSE /\ libOutput[i].jsx = libInput[i].jsx
           /\ libOutput[i].css = libInput[i].css

----------------------------------------------------------------------------
(* MetricsCollector.generateReport                                          *)

\* Array.prototype.reduce without an initial value on an empty array
ReduceOfEmptyArray ==
  [name |-> "TypeError",
   message |-> <<"R","e","d","u","c","e"," ","o","f"," ","e","m","p","t","y"," ","a","r",
                "r","a","y"," ","w","i","t","h"," ","n","o"," ","i","n","i","t","i","a",
                "l"," ","v","a","l","u","e">>]

\* a duration no phase has: Infinity
Infinity == 1000000

\* the callback of getLongestPhase:
\* current.duration > (longest?.duration || 0) ? current : longest
LongerOf(longest, current) ==
  IF current.duration > (IF longest.duration # 0 THEN longest.duration ELSE 0)
  THEN current ELSE longest

\* the callback of getShortestPhase:
\* current.duration < (shortest?.duration || Infinity) ? current : shortest
ShorterOf(shortest, current) ==
  IF current.duration <
       (IF shortest.duration # 0 THEN shortest.duration ELSE Infinity)
  THEN current ELSE shortest

\* this.phases.reduce(callback) from position idx on, acc the accumulator
RECURSIVE ReduceFrom(_, _, _, _)
ReduceFrom(phases, idx, acc, callback) ==
  IF idx > Len(phases) THEN acc
  ELSE ReduceFrom(phases, idx + 1,
                  IF callback = "longest" THEN LongerOf(acc, phases[idx])
                  ELSE ShorterOf(acc, phases[idx]),
                  callback)

\* MetricsCollector.getLongestPhase: reduce is given no initial value, so
\* the first phase is the first accumulator and an empty array throws
getLongestPhase(phases) ==
  IF phases = <<>>
  THEN [threw |-> TRUE, error |-> ReduceOfEmptyArray, value |-> Undefined]
  ELSE [threw |-> FALSE, error |-> NoError,
        value |-> ReduceFrom(phases, 2, phases[1], "longest")]

\* MetricsCollector.getShortestPhase
getShortestPhase(phases) ==
  IF phases = <<>>
  THEN [threw |-> TRUE, error |-> ReduceOfEmptyArray, value |-> Undefined]
  ELSE [threw |-> FALSE, error |-> NoError,
        value |-> ReduceFrom(phases, 2, phases[1], "shortest")]

\* (a / b).toFixed(digits) as the integer a / b * 10^digits, rounded; the
\* division by zero gives NaN or Infinity, which toFixed prints as such
Quotient(a, b, scale) ==
  IF b = 0 THEN (IF a = 0 THEN "NaN" ELSE "Infinity")
  ELSE (2 * a * scale + b) \div (2 * b)

\* MetricsCollector.generateReport: the values the template prints, or the
\* error thrown while the template is evaluated
generateReport(phases, startTime, time) ==
  LET totalDuration == time - startTime
      successfulPhases == SelectSeq(phases, LAMBDA phase : phase.success)
      failedPhases == SelectSeq(phases, LAMBDA phase : ~phase.success)
      longest == getLongestPhase(phases)
      shortest == getShortestPhase(phases)
  IN  IF longest.threw THEN [called |-> TRUE, threw |-> TRUE,
                             error |-> longest.error, value |-> Undefined]
      ELSE IF shortest.threw THEN [called |-> TRUE, threw |-> TRUE,
                                   error |-> shortest.error, value |-> Undefined]
      ELSE [called |-> TRUE, threw |-> FALSE, error |-> NoError,
            value |->
              [totalDuration |-> totalDuration,
               successfulPhases |-> Len(successfulPhases),
               failedPhases |-> Len(failedPhases),
               successRate |-> Quotient(Len(successfulPhases) * 100, Len(phases), 10),
               breakdown |-> [i \in 1..Len(phases) |->
                                [name |-> phases[i].name,
                                 duration |-> phases[i].duration,
                                 success |-> phases[i].success,
                                 error |-> phases[i].error.message]],
               averagePhaseDuration |-> Quotient(totalDuration, Len(phases), 100),
               longestPhase |-> longest.value.name,
               shortestPhase |-> shortest.value.name]]

NoReport == [called |-> FALSE, threw |-> FALSE, error |-> NoError, value |-> Undefined]

McNames == {"analyze", "generate"}
McDurations == {0, 1}

\* new MetricsCollector(): the clock counts from the construction
McInit ==
  /\ mcPhases = <<>>
  /\ mcNow = 0
  /\ mcStartTime = mcNow
  /\ mcReport = NoReport

McTick ==
  /\ mcNow < MaxMcClock
  /\ mcNow' = mcNow + 1
  /\ mcReport' = NoReport
  /\ UNCHANGED <<mcPhases, mcStartTime>>

\* MetricsCollector.recordPhase(name, duration)
McRecordPhase ==
  /\ Len(mcPhases) < MaxMcPhases
  /\ \E name \in McNames, duration \in McDurations :
       mcPhases' = recordPhase(mcPhases, name, duration, mcNow)
  /\ mcReport' = NoReport
  /\ UNCHANGED <<mcStartTime, mcNow>>

\* MetricsCollector.recordPhaseError(name, duration, error)
McRecordPhaseError ==
  /\ Len(mcPhases) < MaxMcPhases
  /\ \E name \in McNames, duration \in McDurations :
       mcPhases' = recordPhaseError(mcPhases, name, duration,
                                    NewError(<<"x">>), mcNow)
  /\ mcReport' = NoReport
  /\ UNCHANGED <<mcStartTime, mcNow>>

\* MetricsCollector.reset()
McReset ==
  /\ mcPhases' = <<>>
  /\ mcStartTime' = mcNow
  /\ mcReport' = NoReport
  /\ UNCHANGED mcNow

\* MetricsCollector.generateReport()
McGenerateReport ==
  /\ ~mcReport.called
  /\ mcReport' = generateReport(mcPhases, mcStartTime, mcNow)
  /\ UNCHANGED <<mcPhases, mcStartTime, mcNow>>

\* C28: generateReport returns a report in every state of the collector,
\* also right after construction or reset() when no phase is recorded, and
\* it never changes the recorded phases.
C28_ReportInEveryState ==
  /\ [](mcReport.called => ~mcReport.threw)
  /\ [][mcReport'.called => mcPhases' = mcPhases]_vars

\* with at least one phase recorded a report is returned, and a call throws
\* only with no phase recorded
ReportWhenPhasesRecorded ==
  mcReport.called => (mcReport.threw <=> mcPhases = <<>>)

----------------------------------------------------------------------------
(* DocumentationGenerator.generateComponentDocumentation                    *)

\* DocumentationGenerator.generateComponentUsageExample, for react
generateComponentUsageExample(component) ==
  <<"<">> \o component.name \o <<" ", "/", ">">>

\* the values the template of one component's page prints
ComponentPage(component) ==
  [title |-> component.name,
   usage |-> generateComponentUsageExample(component),
   figmaNodeId |-> component.metadata.figmaNodeId,
   componentType |-> component.metadata.componentType,
   complexity |-> component.metadata.complexity,
   estimatedAccuracy |-> component.metadata.estimatedAccuracy]

\* components.forEach(component => { docs[component.name] = ... }): the
\* object as its entries in insertion order
RECURSIVE DocsLoop(_, _)
DocsLoop(components, docs) ==
  IF components = <<>> THEN docs
  ELSE DocsLoop(Tail(components),
                MapSet(docs, Head(components).name, ComponentPage(Head(components))))

\* DocumentationGenerator.generateComponentDocumentation
generateComponentDocumentation(components) == DocsLoop(components, <<>>)

NotOptimized == [done |-> FALSE, components |-> <<>>]
NotDocumented == [done |-> FALSE, componentDocs |-> <<>>]

\* names of Figma nodes; the second is sanitized to the first
DocNodeNames == {<<"A">>, <<"A", "!">>, <<"B">>}

\* what ReactGenerator.generateComponents returns for the entries of a
\* components map pointing at FRAME nodes of these names
DocBatches(config, maxLen) ==
  UNION {{[i \in 1..n |->
             ReactGenerator_emitComponent(
               config, ParentNode(NodeIdAt(i), names[i], "FRAME", <<"H", "i">>),
               names[i], 0)] :
            names \in [1..n -> DocNodeNames]} : n \in 0..maxLen}

DocInit ==
  /\ docConfig \in RxConfigs
  /\ docInput \in DocBatches(docConfig, MaxDocsBatch)
  /\ docOptimized = NotOptimized
  /\ docOutput = NotDocumented

\* phase optimize: new OptimizationEngine(config.optimization)
\*   .optimizeComponents(components)
DocOptimizeComponents ==
  /\ ~docOptimized.done
  /\ docOptimized' = [done |-> TRUE,
                      components |-> optimizeComponents(docInput,
                                                        docConfig.optimization)]
  /\ UNCHANGED <<docConfig, docInput, docOutput>>

\* phase document: generateDocumentation(optimizedComponents, designTokens),
\* its componentDocs
DocGenerateDocumentation ==
  /\ docOptimized.done
  /\ ~docOutput.done
  /\ docOutput' = [done |-> TRUE,
                   componentDocs |->
                     generateComponentDocumentation(docOptimized.components)]
  /\ UNCHANGED <<docConfig, docInput, docOptimized>>

\* C29: componentDocs holds exactly one entry for each component of the
\* optimized set: as many entries as components, for every batch the
\* optimizer returns.
C29_OneDocPerComponent ==
  docOutput.done =>
    Len(docOutput.componentDocs) = Len(docOptimized.components)

\* componentDocs holds one entry for each name among the optimized
\* components, the page of the last component of that name
OneDocPerName ==
  docOutput.done =>
    /\ {docOutput.componentDocs[k].key : k \in 1..Len(docOutput.componentDocs)}
         = {docOptimized.components[i].name : i \in 1..Len(docOptimized.components)}
    /\ \A k, l \in 1..Len(docOutput.componentDocs) :
         k # l => docOutput.componentDocs[k].key # docOutput.componentDocs[l].key
    /\ \A k \in 1..Len(docOutput.componentDocs) :
         \E i \in 1..Len(docOptimized.components) :
           /\ docOutput.componentDocs[k].value
                = ComponentPage(docOptimized.components[i])
           /\ \A j \in (i + 1)..Len(docOptimized.components) :
                docOptimized.components[j].name # docOutput.componentDocs[k].key

----------------------------------------------------------------------------
(* ConfigurationManager.getConfig and the object it hands out               *)
(* A configuration object holds its scalar fields and a reference to its   *)
(* optimization object; object spread copies the fields and the reference. *)

\* the configuration an object and the heap stand for
Deref(config, heap) == [config EXCEPT !.optimization = heap[config.optimization]]

\* the configuration later getConfig and exportConfig calls show and
\* validateConfig judges
Observed == Deref(snapConfig, snapHeap)

NotHeld == [held |-> FALSE, value |-> <<>>]

\* ConfigurationManager.getConfig: { ...this.config }
getConfig(config) == [k \in DOMAIN config |-> config[k]]

\* updates a caller passes to updateConfig
SnapUpdates ==
  {Restrict(c, ks) :
     c \in [framework : {SvelteS}, styling : {"emotion"},
            optimization : {[maxBundleSize |-> 300], <<>>}],
     ks \in SUBSET {"framework", "styling", "optimization"}}

\* new ConfigurationManager(): mergeConfigurations builds the first
\* optimization object
SnapInit ==
  /\ snapHeap = <<mergeConfigurations(createDefaultConfig, <<>>).optimization>>
  /\ snapConfig = [mergeConfigurations(createDefaultConfig, <<>>) EXCEPT
                     !.optimization = 1]
  /\ snapCopy = NotHeld
  /\ snapStep = "new"

\* the caller calls getConfig() and keeps the object
SnapGetConfig ==
  /\ snapCopy' = [held |-> TRUE, value |-> getConfig(snapConfig)]
  /\ snapStep' = "getConfig"
  /\ UNCHANGED <<snapHeap, snapConfig>>

\* the caller assigns a field of the object it holds
SnapCallerSetsField ==
  /\ snapCopy.held
  /\ \/ \E framework \in CfgFrameworks :
          snapCopy' = [snapCopy EXCEPT !.value.framework = framework]
     \/ \E styling \in CfgStylings :
          snapCopy' = [snapCopy EXCEPT !.value.styling = styling]
  /\ snapStep' = "callerSetsField"
  /\ UNCHANGED <<snapHeap, snapConfig>>

\* the caller assigns a field of the optimization record of the object it
\* holds: config.optimization.maxBundleSize = 0
SnapCallerSetsOptimization ==
  /\ snapCopy.held
  /\ \/ \E maxBundleSize \in {0, 300} :
          snapHeap' = [snapHeap EXCEPT
                         ![snapCopy.value.optimization].maxBundleSize = maxBundleSize]
     \/ \E targetPerformanceScore \in {90, 101} :
          snapHeap' = [snapHeap EXCEPT
                         ![snapCopy.value.optimization].targetPerformanceScore =
                            targetPerformanceScore]
  /\ snapStep' = "callerSetsOptimization"
  /\ UNCHANGED <<snapConfig, snapCopy>>

\* ConfigurationManager.updateConfig(updates): mergeConfigurations builds a
\* new configuration object and a new optimization object
SnapUpdateConfig ==
  /\ Len(snapHeap) < MaxSnapObjects
  /\ \E updates \in SnapUpdates :
       LET merged == mergeConfigurations(Observed, updates)
       IN  /\ snapHeap' = Append(snapHeap, merged.optimization)
           /\ snapConfig' = [merged EXCEPT !.optimization = Len(snapHeap) + 1]
  /\ snapStep' = "updateConfig"
  /\ UNCHANGED snapCopy

\* C30: getConfig returns a snapshot: nothing the caller does to the returned
\* object, its nested optimization record included, changes the
\* configuration that later getConfig, validateConfig or exportConfig calls
\* observe.
C30_GetConfigReturnsSnapshot ==
  [][snapStep' \in {"callerSetsField", "callerSetsOptimization"} =>
       /\ Deref(snapConfig', snapHeap') = Observed
       /\ validateConfig(Deref(snapConfig', snapHeap')).isValid
            = validateConfig(Observed).isValid]_vars

\* assignments to the scalar fields of the returned object change nothing,
\* and the returned object stops sharing the optimization record with the
\* manager at the next updateConfig
C30_TopLevelIsCopied ==
  [][/\ snapStep' = "callerSetsField" => Deref(snapConfig', snapHeap') = Observed
     /\ (snapStep' = "callerSetsOptimization"
           /\ snapCopy.value.optimization # snapConfig.optimization)
          => Deref(snapConfig', snapHeap') = Observed]_vars

----------------------------------------------------------------------------
(* Specifications: one per subsystem; the objects of the other subsystems
   are constructed and left alone *)

GenQuiet ==
  /\ genFramework = ReactS
  /\ genInput = <<>>
  /\ genOut = GenIdle

CfgQuiet ==
  /\ cfg = createDefaultConfig
  /\ cfgValidation = NotValidated

OrchQuiet ==
  /\ figmaData = [hasDocument |-> TRUE, file |-> "fileA"]
  /\ orchFramework = ReactS
  /\ faultAt = "none"
  /\ pc = "idle"
  /\ phaseIdx = 0
  /\ phaseStart = 0
  /\ now = 0
  /\ console = <<>>
  /\ metricsPhases = <<>>
  /\ pipeline = [analysisResult |-> Undefined, components |-> Undefined,
                 optimizedComponents |-> Undefined]
  /\ phaseResults = NoPhaseResults
  /\ thrown = NoError
  /\ handlerErrors = <<>>
  /\ outcome = Pending
  /\ callLog = <<>>

OptQuiet ==
  /\ optConfig = [enableComponentDeduplication |-> TRUE, enableTreeShaking |-> TRUE,
                  enableCSSMinification |-> TRUE, enableAssetOptimization |-> TRUE]
  /\ optInput = <<>>
  /\ optOutput = <<>>
  /\ optBy = "none"
  /\ duplicateComponents = 0
  /\ optAgain = NotAgain

LibQuiet ==
  /\ libInput = <<>>
  /\ libOutput = <<>>
  /\ libDone = FALSE

RxQuiet ==
  /\ rxConfig = [typescript |-> FALSE, enableThemeSupport |-> FALSE,
                 enableI18n |-> FALSE, optimization |-> DefaultOptimization]
  /\ rxDocument = [id |-> <<"0", ":", "0">>, name |-> <<"D", "o", "c">>,
                   type |-> "DOCUMENT", characters |-> <<>>, children |-> <<>>]
  /\ rxComponents = <<>>
  /\ rxClock = 0
  /\ rxRuns = [r \in 1..2 |-> NotRun]
  /\ rxLibrary = [done |-> FALSE, output |-> <<>>]

PerfQuiet ==
  /\ perfConfig = [maxBundleSize |-> 500, enableLazyLoading |-> TRUE]
  /\ perfMetrics = NoMetrics
  /\ perfInput = <<>>
  /\ perfOptimized = [done |-> FALSE, components |-> <<>>]
  /\ perfReports = [enterprise |-> <<>>, orchestrator |-> <<>>]

QaQuiet ==
  /\ qaConfig = [enableTesting |-> TRUE]
  /\ qaInput = <<>>
  /\ qaReports = [assurance |-> <<>>, enterprise |-> <<>>]

RunsQuiet ==
  /\ runs = [r \in RunIds |-> NotStarted([hasDocument |-> TRUE, file |-> "fileA"])]
  /\ runsNow = 0
  /\ runsMetrics = <<>>
  /\ runsErrors = <<>>

AnQuiet ==
  /\ anDocument = AnNode(0, "DOCUMENT", <<>>)
  /\ anResult = NotAnalyzed

ShakeQuiet ==
  /\ shakeConfig = [enableTreeShaking |-> TRUE]
  /\ shakeInput = <<>>
  /\ shakeOutput = <<>>
  /\ shakeBy = "none"

CssQuiet ==
  /\ cssConfig = [cssArchitecture |-> "bem", enableThemeSupport |-> TRUE,
                  enableContainerQueries |-> TRUE]
  /\ cssName = <<"C">>
  /\ cssOut = NoStylesheet

McQuiet ==
  /\ mcPhases = <<>>
  /\ mcStartTime = 0
  /\ mcNow = 0
  /\ mcReport = NoReport

DocQuiet ==
  /\ docConfig = [typescript |-> FALSE, enableThemeSupport |-> FALSE,
                  enableI18n |-> FALSE, optimization |-> DefaultOptimization]
  /\ docInput = <<>>
  /\ docOptimized = NotOptimized
  /\ docOutput = NotDocumented

SnapQuiet ==
  /\ snapHeap = <<createDefaultConfig.optimization>>
  /\ snapConfig = [createDefaultConfig EXCEPT !.optimization = 1]
  /\ snapCopy = NotHeld
  /\ snapStep = "new"

\* everything outside the subsystem of SpecGen
GenOthers == <<cfgVars, orchVars, optVars, libVars, perfVars, qaVars,
               runsVars, anVars, shakeVars, cssVars, mcVars, docVars,
               snapVars, rxVars>>
GenSpecInit == GenInit /\ CfgQuiet /\ OrchQuiet /\ OptQuiet /\ LibQuiet
    /\ PerfQuiet /\ QaQuiet /\ RunsQuiet /\ AnQuiet /\ ShakeQuiet
    /\ CssQuiet /\ McQuiet /\ DocQuiet /\ SnapQuiet /\ RxQuiet
GenNext ==
  \/ FactoryGenerate /\ UNCHANGED GenOthers
  \/ EnterpriseGenerate /\ UNCHANGED GenOthers
  \/ Regenerate /\ UNCHANGED GenOthers
SpecGen == GenSpecInit /\ [][GenNext]_vars

\* everything outside the subsystem of SpecCfg
CfgOthers == <<genVars, orchVars, optVars, libVars, perfVars, qaVars,
               runsVars, anVars, shakeVars, cssVars, mcVars, docVars,
               snapVars, rxVars>>
CfgSpecInit == GenQuiet /\ CfgInit /\ OrchQuiet /\ OptQuiet /\ LibQuiet
    /\ PerfQuiet /\ QaQuiet /\ RunsQuiet /\ AnQuiet /\ ShakeQuiet
    /\ CssQuiet /\ McQuiet /\ DocQuiet /\ SnapQuiet /\ RxQuiet
CfgNext ==
  \/ UpdateConfig /\ UNCHANGED CfgOthers
  \/ ValidateConfig /\ UNCHANGED CfgOthers
SpecCfg == CfgSpecInit /\ [][CfgNext]_vars

\* everything outside the subsystem of SpecOrch
OrchOthers == <<genVars, cfgVars, optVars, libVars, perfVars, qaVars,
                runsVars, anVars, shakeVars, cssVars, mcVars, docVars,
                snapVars, rxVars>>
OrchSpecInit == GenQuiet /\ CfgQuiet /\ OrchInit /\ OptQuiet /\ LibQuiet
    /\ PerfQuiet /\ QaQuiet /\ RunsQuiet /\ AnQuiet /\ ShakeQuiet
    /\ CssQuiet /\ McQuiet /\ DocQuiet /\ SnapQuiet /\ RxQuiet
OrchNext ==
  \/ Tick /\ UNCHANGED OrchOthers
  \/ GenerateEnterprise /\ UNCHANGED OrchOthers
  \/ StartPhase /\ UNCHANGED OrchOthers
  \/ PhaseCompletes /\ UNCHANGED OrchOthers
  \/ PhaseThrows /\ UNCHANGED OrchOthers
  \/ HandleGenerationError /\ UNCHANGED OrchOthers
SpecOrch == OrchSpecInit /\ [][OrchNext]_vars

\* everything outside the subsystem of SpecOpt
OptOthers == <<genVars, cfgVars, orchVars, libVars, perfVars, qaVars,
               runsVars, anVars, shakeVars, cssVars, mcVars, docVars,
               snapVars, rxVars>>
OptSpecInit == GenQuiet /\ CfgQuiet /\ OrchQuiet /\ OptInit /\ LibQuiet
    /\ PerfQuiet /\ QaQuiet /\ RunsQuiet /\ AnQuiet /\ ShakeQuiet
    /\ CssQuiet /\ McQuiet /\ DocQuiet /\ SnapQuiet /\ RxQuiet
OptNext ==
  \/ OptimizeComponents /\ UNCHANGED OptOthers
  \/ PerformanceDeduplicate /\ UNCHANGED OptOthers
  \/ OptimizeAssetsAgain /\ UNCHANGED OptOthers
SpecOpt == OptSpecInit /\ [][OptNext]_vars

\* everything outside the subsystem of SpecLib
LibOthers == <<genVars, cfgVars, orchVars, optVars, perfVars, qaVars,
               runsVars, anVars, shakeVars, cssVars, mcVars, docVars,
               snapVars, rxVars>>
LibSpecInit == GenQuiet /\ CfgQuiet /\ OrchQuiet /\ OptQuiet /\ LibInit
    /\ PerfQuiet /\ QaQuiet /\ RunsQuiet /\ AnQuiet /\ ShakeQuiet
    /\ CssQuiet /\ McQuiet /\ DocQuiet /\ SnapQuiet /\ RxQuiet
LibNext ==
  \/ OptimizeForReusability /\ UNCHANGED LibOthers
SpecLib == LibSpecInit /\ [][LibNext]_vars

\* everything outside the subsystem of SpecPerf
PerfOthers == <<genVars, cfgVars, orchVars, optVars, libVars, qaVars,
                runsVars, anVars, shakeVars, cssVars, mcVars, docVars,
                snapVars, rxVars>>
PerfSpecInit == GenQuiet /\ CfgQuiet /\ OrchQuiet /\ OptQuiet /\ LibQuiet
    /\ PerfInit /\ QaQuiet /\ RunsQuiet /\ AnQuiet /\ ShakeQuiet /\ CssQuiet
    /\ McQuiet /\ DocQuiet /\ SnapQuiet /\ RxQuiet
PerfNext ==
  \/ PerfOptimizeBundleSize /\ UNCHANGED PerfOthers
  \/ PerfEnterpriseReport /\ UNCHANGED PerfOthers
  \/ PerfOrchestratorReport /\ UNCHANGED PerfOthers
SpecPerf == PerfSpecInit /\ [][PerfNext]_vars

\* everything outside the subsystem of SpecQuality
QaOthers == <<genVars, cfgVars, orchVars, optVars, libVars, perfVars,
              runsVars, anVars, shakeVars, cssVars, mcVars, docVars,
              snapVars, rxVars>>
QaSpecInit == GenQuiet /\ CfgQuiet /\ OrchQuiet /\ OptQuiet /\ LibQuiet
    /\ PerfQuiet /\ QaInit /\ RunsQuiet /\ AnQuiet /\ ShakeQuiet /\ CssQuiet
    /\ McQuiet /\ DocQuiet /\ SnapQuiet /\ RxQuiet
QaNext ==
  \/ QaAssuranceAnalyze /\ UNCHANGED QaOthers
  \/ QaEnterpriseAnalyze /\ UNCHANGED QaOthers
SpecQuality == QaSpecInit /\ [][QaNext]_vars

\* everything outside the subsystem of SpecRuns
RunsOthers == <<genVars, cfgVars, orchVars, optVars, libVars, perfVars,
                qaVars, anVars, shakeVars, cssVars, mcVars, docVars,
                snapVars, rxVars>>
RunsSpecInit == GenQuiet /\ CfgQuiet /\ OrchQuiet /\ OptQuiet /\ LibQuiet
    /\ PerfQuiet /\ QaQuiet /\ RunsInit /\ AnQuiet /\ ShakeQuiet /\ CssQuiet
    /\ McQuiet /\ DocQuiet /\ SnapQuiet /\ RxQuiet
RunsNext ==
  \/ RunsTick /\ UNCHANGED RunsOthers
  \/ (\E r \in RunIds : RunGenerateEnterprise(r)) /\ UNCHANGED RunsOthers
  \/ (\E r \in RunIds : RunStartPhase(r)) /\ UNCHANGED RunsOthers
  \/ (\E r \in RunIds : RunPhaseCompletes(r)) /\ UNCHANGED RunsOthers
  \/ (\E r \in RunIds : RunPhaseThrows(r)) /\ UNCHANGED RunsOthers
  \/ (\E r \in RunIds : RunHandleGenerationError(r)) /\ UNCHANGED RunsOthers
SpecRuns == RunsSpecInit /\ [][RunsNext]_vars

\* everything outside the subsystem of SpecAnalyzer
AnOthers == <<genVars, cfgVars, orchVars, optVars, libVars, perfVars,
              qaVars, runsVars, shakeVars, cssVars, mcVars, docVars,
              snapVars, rxVars>>
AnSpecInit == GenQuiet /\ CfgQuiet /\ OrchQuiet /\ OptQuiet /\ LibQuiet
    /\ PerfQuiet /\ QaQuiet /\ RunsQuiet /\ AnInit /\ ShakeQuiet /\ CssQuiet
    /\ McQuiet /\ DocQuiet /\ SnapQuiet /\ RxQuiet
AnNext ==
  \/ AnAnalyzeDesignSystem /\ UNCHANGED AnOthers
SpecAnalyzer == AnSpecInit /\ [][AnNext]_vars

\* everything outside the subsystem of SpecShake
ShakeOthers == <<genVars, cfgVars, orchVars, optVars, libVars, perfVars,
                 qaVars, runsVars, anVars, cssVars, mcVars, docVars,
                 snapVars, rxVars>>
ShakeSpecInit == GenQuiet /\ CfgQuiet /\ OrchQuiet /\ OptQuiet /\ LibQuiet
    /\ PerfQuiet /\ QaQuiet /\ RunsQuiet /\ AnQuiet /\ ShakeInit /\ CssQuiet
    /\ McQuiet /\ DocQuiet /\ SnapQuiet /\ RxQuiet
ShakeNext ==
  \/ ShakePerformanceOptimizer /\ UNCHANGED ShakeOthers
  \/ ShakeOptimizationEngine /\ UNCHANGED ShakeOthers
SpecShake == ShakeSpecInit /\ [][ShakeNext]_vars

\* everything outside the subsystem of SpecCss
CssOthers == <<genVars, cfgVars, orchVars, optVars, libVars, perfVars,
               qaVars, runsVars, anVars, shakeVars, mcVars, docVars,
               snapVars, rxVars>>
CssSpecInit == GenQuiet /\ CfgQuiet /\ OrchQuiet /\ OptQuiet /\ LibQuiet
    /\ PerfQuiet /\ QaQuiet /\ RunsQuiet /\ AnQuiet /\ ShakeQuiet /\ CssInit
    /\ McQuiet /\ DocQuiet /\ SnapQuiet /\ RxQuiet
CssNext ==
  \/ CssArchitectural /\ UNCHANGED CssOthers
  \/ CssEnterprise /\ UNCHANGED CssOthers
SpecCss == CssSpecInit /\ [][CssNext]_vars

\* everything outside the subsystem of SpecMetrics
McOthers == <<genVars, cfgVars, orchVars, optVars, libVars, perfVars,
              qaVars, runsVars, anVars, shakeVars, cssVars, docVars,
              snapVars, rxVars>>
McSpecInit == GenQuiet /\ CfgQuiet /\ OrchQuiet /\ OptQuiet /\ LibQuiet
    /\ PerfQuiet /\ QaQuiet /\ RunsQuiet /\ AnQuiet /\ ShakeQuiet
    /\ CssQuiet /\ McInit /\ DocQuiet /\ SnapQuiet /\ RxQuiet
McNext ==
  \/ McTick /\ UNCHANGED McOthers
  \/ McRecordPhase /\ UNCHANGED McOthers
  \/ McRecordPhaseError /\ UNCHANGED McOthers
  \/ McReset /\ UNCHANGED McOthers
  \/ McGenerateReport /\ UNCHANGED McOthers
SpecMetrics == McSpecInit /\ [][McNext]_vars

\* everything outside the subsystem of SpecDocs
DocOthers == <<genVars, cfgVars, orchVars, optVars, libVars, perfVars,
               qaVars, runsVars, anVars, shakeVars, cssVars, mcVars,
               snapVars, rxVars>>
DocSpecInit == GenQuiet /\ CfgQuiet /\ OrchQuiet /\ OptQuiet /\ LibQuiet
    /\ PerfQuiet /\ QaQuiet /\ RunsQuiet /\ AnQuiet /\ ShakeQuiet
    /\ CssQuiet /\ McQuiet /\ DocInit /\ SnapQuiet /\ RxQuiet
DocNext ==
  \/ DocOptimizeComponents /\ UNCHANGED DocOthers
  \/ DocGenerateDocumentation /\ UNCHANGED DocOthers
SpecDocs == DocSpecInit /\ [][DocNext]_vars

\* everything outside the subsystem of SpecSnapshot
SnapOthers == <<genVars, cfgVars, orchVars, optVars, libVars, perfVars,
                qaVars, runsVars, anVars, shakeVars, cssVars, mcVars,
                docVars, rxVars>>
SnapSpecInit == GenQuiet /\ CfgQuiet /\ OrchQuiet /\ OptQuiet /\ LibQuiet
    /\ PerfQuiet /\ QaQuiet /\ RunsQuiet /\ AnQuiet /\ ShakeQuiet
    /\ CssQuiet /\ McQuiet /\ DocQuiet /\ SnapInit /\ RxQuiet
SnapNext ==
  \/ SnapGetConfig /\ UNCHANGED SnapOthers
  \/ SnapCallerSetsField /\ UNCHANGED SnapOthers
  \/ SnapCallerSetsOptimization /\ UNCHANGED SnapOthers
  \/ SnapUpdateConfig /\ UNCHANGED SnapOthers
SpecSnapshot == SnapSpecInit /\ [][SnapNext]_vars

\* everything outside the subsystem of SpecReact
RxOthers == <<genVars, cfgVars, orchVars, optVars, libVars, perfVars,
              qaVars, runsVars, anVars, shakeVars, cssVars, mcVars,
              docVars, snapVars>>
RxSpecInit == GenQuiet /\ CfgQuiet /\ OrchQuiet /\ OptQuiet /\ LibQuiet
    /\ PerfQuiet /\ QaQuiet /\ RunsQuiet /\ AnQuiet /\ ShakeQuiet
    /\ CssQuiet /\ McQuiet /\ DocQuiet /\ SnapQuiet /\ RxInit
RxNext ==
  \/ RxTick /\ UNCHANGED RxOthers
  \/ (\E r \in 1..2 : RxGenerateComponents(r)) /\ UNCHANGED RxOthers
  \/ (\E r \in 1..2 : RxOptimizeComponents(r)) /\ UNCHANGED RxOthers
  \/ RxOptimizeForReusability /\ UNCHANGED RxOthers
SpecReact == RxSpecInit /\ [][RxNext]_vars

============================================================================
